---------------------------- MODULE Spec2Model ----------------------------
(***************************************************************************)
(* A model of the flowgen event-routing runtime.                           *)
(*                                                                         *)
(*   flow   : flowgen Builder::build and Flow::run (src/flowgen/src/       *)
(*            flow.rs) with the Salesforce PubSub source (src/crates/      *)
(*            salesforce/src/pubsub/subscriber.rs), the broadcast bus and  *)
(*            the NATS JetStream / Delta Lake target arms.                 *)
(*   stage  : a consuming stage on an Event bus: the file Publisher, the   *)
(*            Salesforce PubSub Publisher and the HTTP Processor.          *)
(*   nats   : the NATS subscriber of src/crates/nats/src/jetstream/        *)
(*            subscriber.rs and its mpsc channel.                          *)
(*                                                                         *)
(* The crates are executed independently of one another; `component` says  *)
(* which one a behaviour executes, and the variables of the others rest.   *)
(***************************************************************************)
EXTENDS Integers, Sequences, FiniteSets, TLC

VARIABLES
    component,   \* which crate the behaviour executes
    \* ---- flow.rs
    doc,         \* the config document Builder::build reads
    flowPc,      \* position of Builder::build / Flow::run
    runResult,   \* what Builder::build / Flow::run returned
    bus,         \* every ChannelMessage sent on the broadcast channel, in order
    rx,          \* the Receiver created with the channel: owner and cursor
    received,    \* the messages rx.recv() returned Ok, in order
    rxLagged,    \* number of Lagged errors rx.recv() returned
    targetBuilt, \* the NATS JetStream publisher was built
    natsOut,     \* the messages published to the broker by the NATS target
    recordFailed,\* a record the target received could not be converted
    topicPc,     \* position of each Salesforce per-topic task
    topicResult, \* result of each Salesforce per-topic task
    topicSent,   \* number of messages each topic task sent
    sendFailed,  \* tasks whose send to the bus (or publish) failed
    srcSent,     \* messages the file / NATS source sent
    srcPc,       \* position of the spawned NATS source task
    sfJoinerPc,  \* the task Subscriber::subscribe spawns to join the handles
    deltaPc,     \* the Delta Lake target task
    runJoinerPc, \* the task Flow::run spawns to join task_list
    joined,      \* the tasks whose JoinHandle has been awaited to completion
    setupFailed, \* the set-up steps of Flow::run that failed
    \* ---- a consuming stage (file / salesforce publisher, http processor)
    stage,       \* [kind, id, checks]: the adapter, its current_task_id, and
                 \* whether the build panics on arithmetic overflow
    evSent,      \* number of Events sent on the stage's bus
    evOpen,      \* the upstream Sender of that bus is alive
    sentAfterNew,\* number of Events sent since the stage's Receiver exists
    stRx,        \* the stage's Receiver: owner and cursor
    stPc,        \* position of publish() / Builder::new, build, process
    stResult,    \* what publish() / process() returned
    loopPc,      \* the receive loop task the stage spawned
    tasks,       \* one record per Event the stage received
    stLagged,    \* number of Lagged errors the stage's recv() returned
    fileContent, \* what the file at config.path holds
    \* ---- the NATS subscriber (nats/src/jetstream/subscriber.rs)
    natsPc,      \* position of Builder::build and of the task it spawns
    natsResult,  \* what the spawned subscribe task returned
    mpscLen,     \* number of unread payloads in the mpsc channel
    mpscOpen,    \* the channel's Receiver is alive and open
    natsSendFailed, \* a tx.send() of the subscribe task returned an error
    \* ---- the NATS key/value cache (nats/src/cache.rs)
    cacheStore,  \* Cache.store: "nocache" (no Cache value), "None", or the bucket
    cacheResult, \* the last call on the Cache and what it returned
    kvHistory,   \* per bucket of the server: its history depth, 0 when absent
    kvPuts,      \* per bucket and key: the number of revisions ever put
    kvCreates,   \* per bucket: how many times the server created it
    \* ---- Event::adjust_data_precision (deltalake/src/event.rs)
    eventIn,     \* the Event as it was handed over
    event,       \* the Event now
    evTrace,     \* per call of adjust_data_precision: its result and the data after it
    evPc,        \* "ready", or "panicked" once a call panicked
    \* ---- serde_json::Value::to_recordbatch (core/src/message.rs)
    jsonIn,      \* the JSON value the conversion is called on
    toBatch,     \* what to_recordbatch did: its result and the table
    \* ---- Vec<u8>::try_from(Message) (core/src/message.rs)
    msgIn,       \* the Message handed to try_from
    msgBytes,    \* what try_from returned: its result and the stream
    msgBack,     \* the table read back from the stream
    \* ---- the shared PubSub context (salesforce/src/pubsub/subscriber.rs)
    ctxHolder,   \* the topic task that holds the MutexGuard, or "none"
    ctxWaiters,  \* the topic tasks whose lock() is pending, oldest first
    rpcPc,       \* position of each per-topic task
    streamItems, \* number of stream items each topic task has taken
    \* ---- one published Event and its subscribers (deltalake/src/event.rs)
    pubEvent,    \* the Event as it was when it was sent on the bus
    arrays,      \* the Arrow arrays in memory, by address
    slot,        \* the Event the channel holds: its columns are addresses
    subs,        \* per subscriber: the Event it received and what it did
    \* ---- the NATS target loop of Flow::run (flowgen/src/flow.rs:127-166)
    tgQueue,     \* the messages rx.recv() hands the loop, in order
    tgNext,      \* index in tgQueue of the message the loop handles next
    tgEvent,     \* index of the next event of a Salesforce message, else 0
    tgOut,       \* the publishes the broker accepted: message index and subject
    tgPc,        \* "recv", "events", "ended", "returned" (Err) or "panicked"
    \* ---- the Delta Lake Client (deltalake/src/client.rs)
    client,      \* the Client: path, create_options, table
    lake,        \* the storage at the path: "absent", or the table's schema
    clResult,    \* what connect returned
    clCalls,     \* the storage operations connect made, in order
    \* ---- the builders (ClientBuilder, CacheBuilder, PublisherBuilder)
    bld,         \* the builder: its kind, the attributes set, current_task_id
    bldResult    \* what build() returned: result, attribute named, product

flowVars == <<doc, flowPc, runResult, bus, rx, received, rxLagged, targetBuilt,
              natsOut, recordFailed, topicPc, topicResult, topicSent,
              sendFailed, srcSent, srcPc, sfJoinerPc, deltaPc, runJoinerPc,
              joined, setupFailed>>

stageVars == <<stage, evSent, evOpen, sentAfterNew, stRx, stPc, stResult,
               loopPc, tasks, stLagged, fileContent>>

natsVars == <<natsPc, natsResult, mpscLen, mpscOpen, natsSendFailed>>

cacheVars == <<cacheStore, cacheResult, kvHistory, kvPuts, kvCreates>>

\* The variables of the components that follow the NATS subscriber.
eventVars == <<eventIn, event, evTrace, evPc>>

jsonVars == <<jsonIn, toBatch>>

messageVars == <<msgIn, msgBytes, msgBack>>

\* The variables of the components that follow Event::adjust_data_precision.
pubsubVars == <<ctxHolder, ctxWaiters, rpcPc, streamItems>>

fanoutVars == <<pubEvent, arrays, slot, subs>>

targetVars == <<tgQueue, tgNext, tgEvent, tgOut, tgPc>>

clientVars == <<client, lake, clResult, clCalls>>

builderVars == <<bld, bldResult>>

laterVars == <<jsonVars, messageVars, pubsubVars, fanoutVars, targetVars,
               clientVars, builderVars>>

restVars == <<cacheVars, eventVars, laterVars>>

vars == <<component, flowVars, stageVars, natsVars, restVars>>

---------------------------------------------------------------------------
(* Bounds of the model. *)

\* The capacity the model gives the broadcast channel (flow.rs:82 asks for 1000).
BusCapacity == 2

\* The number of messages the sources of one flow send in total.
MaxSend == 4

\* config.flow.source.topic_list of the Salesforce source.
Topics == {"t1", "t2"}

\* The capacity of the Event bus a stage reads from (its caller sizes it).
EventBusCapacity == 1

\* The number of Events the upstream of a stage sends.
MaxEvents == 2

\* The largest current_task_id a stage is built with.
MaxStage == 2

---------------------------------------------------------------------------
(* The config document and Builder::build. *)

SourceKinds == {"file", "nats_jetstream", "salesforce_pubsub", "gcp_storage"}
TargetKinds == {"nats_jetstream", "deltalake"}

\* The fields each adapter's config struct declares without Option: serde
\* rejects a document that leaves one of them out.
NatsSubscriberFields == {"credentials", "stream", "subject", "durable_name", "batch_size"}

NatsPublisherFields == {"credentials", "stream", "subjects"}

FileSubscriberFields == {"path"}

DeltalakeWriterFields == {"credentials", "path", "operation", "create_options"}

SalesforceSubscriberFields == {"credentials", "topic_list"}

\* The Google storage subscriber's struct is not modelled field by field.
GcpStorageFields == {}

RequiredFields(role, kind) ==
    CASE kind = "file" -> FileSubscriberFields
      [] kind = "nats_jetstream" ->
            IF role = "source" THEN NatsSubscriberFields ELSE NatsPublisherFields
      [] kind = "salesforce_pubsub" -> SalesforceSubscriberFields
      [] kind = "gcp_storage" -> GcpStorageFields
      [] kind = "deltalake" -> DeltalakeWriterFields
      [] OTHER -> {}

\* The field sets a document gives an adapter: complete, or one field short.
FieldSets(role, kind) ==
    {RequiredFields(role, kind)}
        \cup {RequiredFields(role, kind) \ {f} : f \in RequiredFields(role, kind)}

Adapters(role, kinds) ==
    UNION {{[kind |-> k, fields |-> fs] : fs \in FieldSets(role, k)} : k \in kinds}

Docs ==
    {[readable |-> r, source |-> s, target |-> t] :
        r \in BOOLEAN,
        s \in Adapters("source", SourceKinds \cup {"unknown"}),
        t \in Adapters("target", TargetKinds \cup {"unknown"})}

\* serde_json::from_str::<config::Config>: the adapter kind must be a variant
\* of the enum and every non-Option field must be present.
AdapterParses(role, a, kinds) ==
    a.kind \in kinds /\ RequiredFields(role, a.kind) \subseteq a.fields

ParseConfig(d) ==
    /\ AdapterParses("source", d.source, SourceKinds)
    /\ AdapterParses("target", d.target, TargetKinds)

\* A faulty Builder::build that constructs the Flow from whatever it read,
\* without the `?` on the parse.
BuilderSkipsParse(d) == IF ~d.readable THEN "OpenFile" ELSE "Ok"

\* Builder::build, flow.rs:210-225: read_to_string(..)? and from_str(..)?
\* come before the Flow is constructed.
BuilderOutcome(d) ==
    IF ~d.readable THEN "OpenFile"
    ELSE IF ~ParseConfig(d) THEN "ParseConfig"
    ELSE "Ok"

---------------------------------------------------------------------------
(* The broadcast channel (tokio::sync::broadcast) of flow.rs:81-82.        *)
(* `bus` keeps every message sent; the channel itself retains the last     *)
(* `capacity` of them, and a receiver is a cursor into the sequence.        *)

\* Index of the oldest message the channel still retains.
Oldest(log, capacity) == IF Len(log) > capacity THEN Len(log) - capacity + 1 ELSE 1

\* What recv() does for a receiver whose cursor is `next`.
RecvOutcome(log, capacity, next, sendersAlive) ==
    IF next < Oldest(log, capacity) THEN "Lagged"
    ELSE IF next <= Len(log) THEN "Ok"
    ELSE IF sendersAlive THEN "Pending"
    ELSE "Closed"

\* The cursor a Receiver created now starts from: it sees what is sent later.
SubscribeCursor(log) == Len(log) + 1

\* A faulty target loop that subscribes anew when it starts.
ResubscribedCursor(log, cur) == Len(log) + 1

\* The cursor the target loop of Flow::run reads from: `rx` is the Receiver
\* channel() returned, so the loop continues from where that cursor stands.
TargetLoopCursor(log, cur) == cur

FlowTerminal == {"no_flow", "returned", "panicked"}

\* Flow::run holds `tx` until it returns; each topic task and the spawned
\* source task hold a clone until they end.
SendersAlive ==
    \/ flowPc \notin (FlowTerminal \cup {"builder", "built"})
    \/ \E t \in Topics : topicPc[t] \notin {"unspawned", "done"}
    \/ srcPc = "running"

\* send() fails exactly when no Receiver is alive.
ReceiverAlive == rx.owner \in {"run", "delta"}

\* Flow::run leaves: its locals, tx and (when it still owns it) rx, are dropped.
DropRunRx == IF rx.owner = "run" THEN [rx EXCEPT !.owner = "dropped"] ELSE rx

TotalSent == Len(bus)

Msg(variant, from, seq, bad) ==
    [variant |-> variant, from |-> from, seq |-> seq, bad |-> bad]

\* A faulty channel that hands the newest message out first.
SendAtFront(log, m) == <<m>> \o log

\* tx.send(m) (subscriber.rs:134): the channel queues the message behind
\* those sent before it.
BroadcastSend(log, m) == Append(log, m)

---------------------------------------------------------------------------
(* Builder::build, flow.rs:210-225. *)

BuilderBuild ==
    /\ component = "flow"
    /\ flowPc = "builder"
    /\ IF BuilderOutcome(doc) = "Ok"
       THEN flowPc' = "built" /\ runResult' = "none"
       ELSE flowPc' = "no_flow" /\ runResult' = BuilderOutcome(doc)
    /\ UNCHANGED <<stageVars, natsVars, restVars>>
    /\ UNCHANGED <<setupFailed, component, doc, bus, rx, received, rxLagged, targetBuilt,
                   natsOut, recordFailed, topicPc, topicResult, topicSent,
                   sendFailed, srcSent, srcPc, sfJoinerPc, deltaPc,
                   runJoinerPc, joined>>

---------------------------------------------------------------------------
(* Flow::run, flow.rs:68-198. *)

\* flow.rs:70-82: the service is built and connected, then the channel and
\* its first Receiver are created.
RunService ==
    /\ component = "flow"
    /\ flowPc = "built"
    /\ \E ok \in BOOLEAN :
          IF ok
          THEN /\ flowPc' = "source"
               /\ rx' = [owner |-> "run", next |-> SubscribeCursor(bus)]
               /\ UNCHANGED runResult
          ELSE /\ flowPc' = "returned"
               /\ runResult' = "FlowgenService"
               /\ UNCHANGED rx
    /\ UNCHANGED <<stageVars, natsVars, restVars>>
    /\ UNCHANGED <<setupFailed, component, doc, bus, received, rxLagged, targetBuilt,
                   natsOut, recordFailed, topicPc, topicResult, topicSent,
                   sendFailed, srcSent, srcPc, sfJoinerPc, deltaPc,
                   runJoinerPc, joined>>

SourceErrorOf(kind) ==
    CASE kind = "nats_jetstream" -> "FlowgenNatsJetStreamSubscriber"
      [] kind = "file" -> "FlowgenFileSubscriberError"
      [] OTHER -> "FlowgenSalesforcePubSubSubscriberError"

\* A faulty Flow::run that logs the source's error and goes on to the target.
SourceErrorSwallowed(kind) == [pc |-> "target", result |-> "none"]

\* `.map_err(Error::...)?` on the source's build() and subscribe()
\* (flow.rs:87-111): the error is returned from Flow::run.
AfterSourceError(kind) == [pc |-> "returned", result |-> SourceErrorOf(kind)]

\* `.map_err(Error::FlowgenNatsJetStreamPublisher)?` on the target's build()
\* (flow.rs:121-124).
AfterTargetError == [pc |-> "returned", result |-> "FlowgenNatsJetStreamPublisher"]

\* A faulty Flow::run that goes on to the target without awaiting subscribe().
SubscribeSkipped(kind) == "target"

\* Where Flow::run stands once the source's build() returned Ok: the chained
\* `.subscribe().await` (flow.rs:91-92, 100-101, 109-110) comes next.
AfterSourceBuilt(kind) == "subscribe"

\* flow.rs:85-116, the Builder::build() of the configured source.  For
\* salesforce_pubsub (subscriber.rs:80-152) a successful build has spawned
\* one task per topic.  Any other source kind is "unimplemented".
SourceBuild ==
    /\ component = "flow"
    /\ flowPc = "source"
    /\ IF doc.source.kind = "gcp_storage"
       THEN /\ flowPc' = "target"
            /\ UNCHANGED <<runResult, rx, topicPc, setupFailed>>
       ELSE \E ok \in BOOLEAN :
            IF ok
            THEN /\ flowPc' = AfterSourceBuilt(doc.source.kind)
                 /\ topicPc' = IF doc.source.kind = "salesforce_pubsub"
                               THEN [t \in Topics |-> "get_topic"]
                               ELSE topicPc
                 /\ UNCHANGED <<runResult, rx, setupFailed>>
            ELSE LET after == AfterSourceError(doc.source.kind) IN
                 /\ setupFailed' = setupFailed \cup {"source"}
                 /\ flowPc' = after.pc
                 /\ runResult' = after.result
                 /\ rx' = IF after.pc = "returned" THEN DropRunRx ELSE rx
                 /\ UNCHANGED topicPc
    /\ UNCHANGED <<stageVars, natsVars, restVars>>
    /\ UNCHANGED <<component, doc, bus, received, rxLagged, targetBuilt,
                   natsOut, recordFailed, topicResult, topicSent,
                   sendFailed, srcSent, srcPc, sfJoinerPc, deltaPc,
                   runJoinerPc, joined>>

\* The synchronous part of the file source's subscribe(): the file's
\* batches are sent while Flow::run awaits subscribe().
FileSubscribeSend ==
    /\ component = "flow"
    /\ flowPc = "subscribe"
    /\ doc.source.kind = "file"
    /\ TotalSent < MaxSend
    /\ \E bad \in BOOLEAN :
          bus' = Append(bus, Msg("file", "file", srcSent + 1, bad))
    /\ srcSent' = srcSent + 1
    /\ UNCHANGED <<stageVars, natsVars, restVars>>
    /\ UNCHANGED <<setupFailed, component, doc, flowPc, runResult, rx, received, rxLagged,
                   targetBuilt, natsOut, recordFailed, topicPc, topicResult,
                   topicSent, sendFailed, srcPc, sfJoinerPc, deltaPc,
                   runJoinerPc, joined>>

\* A faulty subscribe() that awaits the join of handle_list itself.
SubscribeAwaitsTasks(pcs) == \A t \in Topics : pcs[t] = "done"

\* What Subscriber::subscribe waits for before it returns (subscriber.rs:
\* 46-56): the join of handle_list is moved into tokio::spawn, whose
\* JoinHandle is dropped, so nothing is awaited.
SubscribeReturns(pcs) == TRUE

\* flow.rs:91-93, 100-102, 109-111: subscribe() is awaited.  The Salesforce
\* Subscriber::subscribe (subscriber.rs:46-56) spawns the task that joins
\* handle_list and returns Ok(()); it has no error path.
SourceSubscribe ==
    /\ component = "flow"
    /\ flowPc = "subscribe"
    /\ \E ok \in BOOLEAN :
          IF doc.source.kind = "salesforce_pubsub"
          THEN /\ ok
               /\ SubscribeReturns(topicPc)
               /\ flowPc' = "target"
               /\ sfJoinerPc' = "joining"
               /\ UNCHANGED <<runResult, rx, srcPc, setupFailed>>
          ELSE IF ok
          THEN /\ flowPc' = "target"
               /\ srcPc' = IF doc.source.kind = "nats_jetstream"
                           THEN "running" ELSE srcPc
               /\ UNCHANGED <<runResult, rx, sfJoinerPc, setupFailed>>
          ELSE LET after == AfterSourceError(doc.source.kind) IN
               /\ setupFailed' = setupFailed \cup {"source"}
               /\ flowPc' = after.pc
               /\ runResult' = after.result
               /\ rx' = IF after.pc = "returned" THEN DropRunRx ELSE rx
               /\ UNCHANGED <<srcPc, sfJoinerPc>>
    /\ UNCHANGED <<stageVars, natsVars, restVars>>
    /\ UNCHANGED <<component, doc, bus, received, rxLagged, targetBuilt,
                   natsOut, recordFailed, topicPc, topicResult, topicSent,
                   sendFailed, srcSent, deltaPc, runJoinerPc, joined>>

\* flow.rs:119-125 and 168-193: the target arm.  nats_jetstream builds the
\* publisher and enters the receive loop inside Flow::run; deltalake moves
\* rx into a spawned task and pushes its handle on task_list.
TargetBuild ==
    /\ component = "flow"
    /\ flowPc = "target"
    /\ IF doc.target.kind = "deltalake"
       THEN /\ flowPc' = "spawn_joiner"
            /\ deltaPc' = "recv"
            /\ rx' = [rx EXCEPT !.owner = "delta"]
            /\ UNCHANGED <<runResult, targetBuilt, setupFailed>>
       ELSE \E ok \in BOOLEAN :
            IF ok
            THEN /\ flowPc' = "target_loop"
                 /\ targetBuilt' = TRUE
                 /\ rx' = [rx EXCEPT !.next = TargetLoopCursor(bus, rx.next)]
                 /\ UNCHANGED <<runResult, deltaPc, setupFailed>>
            ELSE /\ setupFailed' = setupFailed \cup {"target"}
                 /\ flowPc' = AfterTargetError.pc
                 /\ runResult' = AfterTargetError.result
                 /\ rx' = IF AfterTargetError.pc = "returned" THEN DropRunRx ELSE rx
                 /\ UNCHANGED <<targetBuilt, deltaPc>>
    /\ UNCHANGED <<stageVars, natsVars, restVars>>
    /\ UNCHANGED <<component, doc, bus, received, rxLagged, natsOut,
                   recordFailed, topicPc, topicResult, topicSent, sendFailed,
                   srcSent, srcPc, sfJoinerPc, runJoinerPc, joined>>

\* `while let Ok(message) = rx.recv().await` (flow.rs:127): what the loop
\* does when recv() returns the error `outcome` (Lagged or Closed).
LoopAfterRecvError(outcome) == "spawn_joiner"

\* The subject of the broker message derived from a bus message
\* (flow.rs:131, 145-149).
SubjectOf(m) ==
    IF m.variant = "file" THEN <<"filedrop.in", m.seq>>
    ELSE <<"salesforce.pubsub.in", m.from, m.seq>>

\* One turn of the NATS target loop, flow.rs:127-166: recv(), then the match
\* on the message variant; to_bytes().unwrap() panics on a record that does
\* not convert, and a failed send_publish returns Err(NatsPublish) by `?`.
TargetRecv ==
    /\ component = "flow"
    /\ flowPc = "target_loop"
    /\ LET outcome == RecvOutcome(bus, BusCapacity, rx.next, SendersAlive) IN
       /\ outcome # "Pending"
       /\ IF outcome = "Lagged"
          THEN /\ rxLagged' = rxLagged + 1
               /\ rx' = [rx EXCEPT !.next = Oldest(bus, BusCapacity)]
               /\ flowPc' = LoopAfterRecvError(outcome)
               /\ UNCHANGED <<runResult, received, natsOut, recordFailed,
                              sendFailed>>
          ELSE IF outcome = "Closed"
          THEN /\ flowPc' = LoopAfterRecvError(outcome)
               /\ UNCHANGED <<runResult, rx, received, rxLagged, natsOut,
                              recordFailed, sendFailed>>
          ELSE LET m == bus[rx.next] IN
               /\ received' = Append(received, m)
               /\ UNCHANGED rxLagged
               /\ IF m.variant \notin {"file", "salesforce_pubsub"}
                  THEN /\ rx' = [rx EXCEPT !.next = @ + 1]
                       /\ UNCHANGED <<flowPc, runResult, natsOut,
                                      recordFailed, sendFailed>>
                  ELSE IF m.bad
                  THEN /\ flowPc' = "panicked"
                       /\ runResult' = "panic"
                       /\ recordFailed' = TRUE
                       /\ rx' = [owner |-> "dropped", next |-> rx.next + 1]
                       /\ UNCHANGED <<natsOut, sendFailed>>
                  ELSE \E published \in BOOLEAN :
                       IF published
                       THEN /\ natsOut' = Append(natsOut, SubjectOf(m))
                            /\ rx' = [rx EXCEPT !.next = @ + 1]
                            /\ UNCHANGED <<flowPc, runResult, recordFailed,
                                           sendFailed>>
                       ELSE /\ flowPc' = "returned"
                            /\ runResult' = "NatsPublish"
                            /\ sendFailed' = sendFailed \cup {"target"}
                            /\ rx' = [owner |-> "dropped", next |-> rx.next + 1]
                            /\ UNCHANGED <<natsOut, recordFailed>>
    /\ UNCHANGED <<stageVars, natsVars, restVars>>
    /\ UNCHANGED <<setupFailed, component, doc, bus, targetBuilt, topicPc, topicResult,
                   topicSent, srcSent, srcPc, sfJoinerPc, deltaPc,
                   runJoinerPc, joined>>

\* flow.rs:196-197: the join of task_list is spawned, detached, and
\* Flow::run returns Ok(self).
RunReturn ==
    /\ component = "flow"
    /\ flowPc = "spawn_joiner"
    /\ flowPc' = "returned"
    /\ runResult' = "Ok"
    /\ runJoinerPc' = "joining"
    /\ rx' = DropRunRx
    /\ UNCHANGED <<stageVars, natsVars, restVars>>
    /\ UNCHANGED <<setupFailed, component, doc, bus, received, rxLagged, targetBuilt,
                   natsOut, recordFailed, topicPc, topicResult, topicSent,
                   sendFailed, srcSent, srcPc, sfJoinerPc, deltaPc, joined>>

---------------------------------------------------------------------------
(* The tasks Flow::run leaves running. *)

\* A faulty subscriber in which the failure of one topic task stops them all.
SiblingsCancelled(pcs, t) ==
    [u \in Topics |-> IF pcs[u] = "unspawned" THEN pcs[u] ELSE "done"]

\* The topic tasks after task t returned an Err (subscriber.rs:112, 124,
\* 137-141): the return ends the task that made it; the other tasks are
\* separate tokio tasks and nothing aborts them.
TaskFailed(pcs, t) == [pcs EXCEPT ![t] = "done"]

\* subscriber.rs:105-113: lock the context, get_topic; `?` ends the task.
TopicGetTopic(t) ==
    /\ component = "flow"
    /\ topicPc[t] = "get_topic"
    /\ \E ok \in BOOLEAN :
          IF ok
          THEN /\ topicPc' = [topicPc EXCEPT ![t] = "subscribe"]
               /\ UNCHANGED topicResult
          ELSE /\ topicPc' = TaskFailed(topicPc, t)
               /\ topicResult' = [topicResult EXCEPT ![t] = "FlowgenSalesforcePubSub"]
    /\ UNCHANGED <<stageVars, natsVars, restVars>>
    /\ UNCHANGED <<setupFailed, component, doc, flowPc, runResult, bus, rx, received,
                   rxLagged, targetBuilt, natsOut, recordFailed, topicSent,
                   sendFailed, srcSent, srcPc, sfJoinerPc, deltaPc,
                   runJoinerPc, joined>>

\* subscriber.rs:115-125: lock the context, subscribe; `?` ends the task.
TopicSubscribe(t) ==
    /\ component = "flow"
    /\ topicPc[t] = "subscribe"
    /\ \E ok \in BOOLEAN :
          IF ok
          THEN /\ topicPc' = [topicPc EXCEPT ![t] = "stream"]
               /\ UNCHANGED topicResult
          ELSE /\ topicPc' = TaskFailed(topicPc, t)
               /\ topicResult' = [topicResult EXCEPT ![t] = "FlowgenSalesforcePubSub"]
    /\ UNCHANGED <<stageVars, natsVars, restVars>>
    /\ UNCHANGED <<setupFailed, component, doc, flowPc, runResult, bus, rx, received,
                   rxLagged, targetBuilt, natsOut, recordFailed, topicSent,
                   sendFailed, srcSent, srcPc, sfJoinerPc, deltaPc,
                   runJoinerPc, joined>>

\* What a topic task does when tx.send() returned the error
\* (subscriber.rs:134-135): `.map_err(Error::TokioSendMessage)?`.
TopicAfterSendError == [pc |-> "done", result |-> "TokioSendMessage"]

\* subscriber.rs:127-144: one item of the stream.  Ok(fr) is wrapped and
\* sent on the bus; Err(e) ends the task with RPCFailed; the end of the
\* stream ends it with Ok(()).
TopicNext(t) ==
    /\ component = "flow"
    /\ topicPc[t] = "stream"
    /\ \E item \in {"Ok", "OkBad", "Err", "None"} :
          IF item \in {"Ok", "OkBad"}
          THEN /\ TotalSent < MaxSend
               /\ IF ReceiverAlive
                  THEN /\ bus' = BroadcastSend(bus, Msg("salesforce_pubsub", t,
                                                 topicSent[t] + 1, item = "OkBad"))
                       /\ topicSent' = [topicSent EXCEPT ![t] = @ + 1]
                       /\ UNCHANGED <<topicPc, topicResult, sendFailed>>
                  ELSE /\ sendFailed' = sendFailed \cup {t}
                       /\ topicPc' = [topicPc EXCEPT ![t] = TopicAfterSendError.pc]
                       /\ topicResult' = [topicResult EXCEPT
                                             ![t] = TopicAfterSendError.result]
                       /\ UNCHANGED <<bus, topicSent>>
          ELSE /\ topicPc' = IF item = "Err" THEN TaskFailed(topicPc, t)
                             ELSE [topicPc EXCEPT ![t] = "done"]
               /\ topicResult' = [topicResult EXCEPT
                     ![t] = IF item = "Err" THEN "FlowgenSalesforcePubSub" ELSE "Ok"]
               /\ UNCHANGED <<bus, topicSent, sendFailed>>
    /\ UNCHANGED <<stageVars, natsVars, restVars>>
    /\ UNCHANGED <<setupFailed, component, doc, flowPc, runResult, rx, received, rxLagged,
                   targetBuilt, natsOut, recordFailed, srcSent, srcPc,
                   sfJoinerPc, deltaPc, runJoinerPc, joined>>

\* subscriber.rs:47-54: the spawned join of handle_list completes when every
\* topic task has ended; its result is discarded (`let _ =`).
SfJoiner ==
    /\ component = "flow"
    /\ sfJoinerPc = "joining"
    /\ \A t \in Topics : topicPc[t] = "done"
    /\ sfJoinerPc' = "done"
    /\ joined' = joined \cup Topics
    /\ UNCHANGED <<stageVars, natsVars, restVars>>
    /\ UNCHANGED <<setupFailed, component, doc, flowPc, runResult, bus, rx, received,
                   rxLagged, targetBuilt, natsOut, recordFailed, topicPc,
                   topicResult, topicSent, sendFailed, srcSent, srcPc,
                   deltaPc, runJoinerPc>>

\* The task the NATS source's subscribe() leaves running: it sends the
\* messages of the stream on the bus and ends.
NatsSourceTask ==
    /\ component = "flow"
    /\ srcPc = "running"
    /\ \E item \in {"Ok", "None"} :
          IF item = "Ok"
          THEN /\ TotalSent < MaxSend
               /\ IF ReceiverAlive
                  THEN /\ bus' = Append(bus, Msg("nats_jetstream", "nats",
                                                 srcSent + 1, FALSE))
                       /\ srcSent' = srcSent + 1
                       /\ UNCHANGED <<srcPc, sendFailed>>
                  ELSE /\ srcPc' = "done"
                       /\ sendFailed' = sendFailed \cup {"nats"}
                       /\ UNCHANGED <<bus, srcSent>>
          ELSE /\ srcPc' = "done"
               /\ UNCHANGED <<bus, srcSent, sendFailed>>
    /\ UNCHANGED <<stageVars, natsVars, restVars>>
    /\ UNCHANGED <<setupFailed, component, doc, flowPc, runResult, rx, received, rxLagged,
                   targetBuilt, natsOut, recordFailed, topicPc, topicResult,
                   topicSent, sfJoinerPc, deltaPc, runJoinerPc, joined>>

\* flow.rs:174-191: the Delta Lake task receives until recv() returns an
\* error and then returns Ok(()).
DeltaRecv ==
    /\ component = "flow"
    /\ deltaPc = "recv"
    /\ LET outcome == RecvOutcome(bus, BusCapacity, rx.next, SendersAlive) IN
       /\ outcome # "Pending"
       /\ IF outcome = "Ok"
          THEN /\ received' = Append(received, bus[rx.next])
               /\ rx' = [rx EXCEPT !.next = @ + 1]
               /\ UNCHANGED <<deltaPc, rxLagged>>
          ELSE /\ deltaPc' = "done"
               /\ rxLagged' = IF outcome = "Lagged" THEN rxLagged + 1 ELSE rxLagged
               /\ rx' = [owner |-> "dropped",
                         next |-> IF outcome = "Lagged" THEN Oldest(bus, BusCapacity) ELSE rx.next]
               /\ UNCHANGED received
    /\ UNCHANGED <<stageVars, natsVars, restVars>>
    /\ UNCHANGED <<setupFailed, component, doc, flowPc, runResult, bus, targetBuilt,
                   natsOut, recordFailed, topicPc, topicResult, topicSent,
                   sendFailed, srcSent, srcPc, sfJoinerPc, runJoinerPc, joined>>

\* flow.rs:196: the detached join of task_list completes when every handle
\* on it (the Delta Lake task, if any) has completed.
RunJoiner ==
    /\ component = "flow"
    /\ runJoinerPc = "joining"
    /\ deltaPc \in {"none", "done"}
    /\ runJoinerPc' = "done"
    /\ joined' = IF deltaPc = "done" THEN joined \cup {"delta"} ELSE joined
    /\ UNCHANGED <<stageVars, natsVars, restVars>>
    /\ UNCHANGED <<setupFailed, component, doc, flowPc, runResult, bus, rx, received,
                   rxLagged, targetBuilt, natsOut, recordFailed, topicPc,
                   topicResult, topicSent, sendFailed, srcSent, srcPc,
                   sfJoinerPc, deltaPc>>

---------------------------------------------------------------------------
(* A consuming stage on a bus of Events:                                   *)
(*   file       src/crates/file/src/publisher.rs                           *)
(*   salesforce src/crates/salesforce/src/pubsub/publisher.rs              *)
(*   http       src/crates/http/src/processor.rs                           *)
(* An Event is identified by its position on the bus; what it holds is     *)
(* fixed by the upstream and is read when the stage receives it.           *)

StageKinds == {"file", "salesforce", "http"}

\* usize::MAX.  The model's usize is 31 bits wide, the widest TLC computes
\* with; the wrap of 0 - 1 to the largest value is what matters.
UsizeMax == 2^30 + (2^30 - 1)

\* Event.current_task_id: Option<usize>.
NoStamp == -1
Stamps == {NoStamp} \cup (0 .. MaxStage) \cup {UsizeMax}

\* What the record of an Event is like: fine; one of its inputs cannot be
\* extracted (a named column is missing); it cannot be rendered or written.
Qualities == {"ok", "noinput", "norender"}

\* `self.current_task_id - 1` on usize: with overflow checks the subtraction
\* panics at 0, without them it wraps.
PredecessorPanics(n, checks) == n = 0 /\ checks

Predecessor(n) == IF n > 0 THEN n - 1 ELSE UsizeMax

\* A faulty filter that accepts the stage's own stamp.
AcceptsOwnStamp(n, stamp) == stamp # NoStamp /\ stamp = n

\* `event.current_task_id == Some(self.current_task_id - 1)`
\* (file publisher.rs:33, salesforce publisher.rs:78, processor.rs:87).
Accepts(n, stamp) ==
    stamp # NoStamp /\ stamp = Predecessor(n)

\* The current_task_id a message on the flow's bus carries.  The bus of
\* Flow::run is a channel of ChannelMessage: the Salesforce source sends
\* ChannelMessage::salesforce_pubsub(SalesforcePubSubMessage { fetch_response,
\* topic_info }) (subscriber.rs:130-134), and its Builder (subscriber.rs:
\* 59-63) has no current_task_id to stamp with; no variant holds a stamp.
CurrentTaskIdOf(m) == NoStamp

StageSendersAlive ==
    \/ evOpen
    \* processor.rs:70: the Builder clones tx, and build() moves it into the task
    \/ stage.kind = "http" /\ stPc # "unbuilt" /\ loopPc \in {"none", "running"}

\* The Events sent so far, by position.
EventLog == [i \in 1 .. evSent |-> i]

StageRecvOutcome == RecvOutcome(EventLog, EventBusCapacity, stRx.next, StageSendersAlive)

StageOldest == Oldest(EventLog, EventBusCapacity)

\* A finished task has dropped its Event: only its stamp and what became of
\* it are remembered.
Task(i, stamp, q, pc, out) ==
    [ev |-> i, stamp |-> stamp, q |-> IF pc = "done" THEN "-" ELSE q,
     pc |-> pc, out |-> out]

Finish(task, out) == Task(task.ev, task.stamp, task.q, "done", out)

\* The upstream stage sends an Event.
StageSend ==
    /\ component = "stage"
    /\ evOpen
    /\ evSent < MaxEvents
    /\ evSent' = evSent + 1
    /\ sentAfterNew' = IF stRx.owner # "none" THEN sentAfterNew + 1 ELSE sentAfterNew
    /\ UNCHANGED <<natsVars, restVars>>
    /\ UNCHANGED <<component, flowVars, stage, evOpen, stRx, stPc, stResult,
                   loopPc, tasks, stLagged, fileContent>>

\* The upstream stage ends: its Sender is dropped.
StageUpstreamEnds ==
    /\ component = "stage"
    /\ evOpen
    /\ evOpen' = FALSE
    /\ UNCHANGED <<natsVars, restVars>>
    /\ UNCHANGED <<component, flowVars, stage, evSent, sentAfterNew, stRx, stPc,
                   stResult, loopPc, tasks, stLagged, fileContent>>

---------------------------------------------------------------------------
(* file Publisher::publish, file publisher.rs:27-61. *)

\* publisher.rs:30-56: recv(); each Event is moved into a spawned task whose
\* handle is pushed on handle_list.  An Err from recv() ends the loop.
FilePublishRecv ==
    /\ component = "stage"
    /\ stage.kind = "file"
    /\ stPc = "publishing"
    /\ StageRecvOutcome # "Pending"
    /\ IF StageRecvOutcome = "Ok"
       THEN /\ \E stamp \in Stamps, q \in Qualities \ {"noinput"} :
                  tasks' = Append(tasks, Task(stRx.next, stamp, q, "spawned", "none"))
            /\ stRx' = [stRx EXCEPT !.next = @ + 1]
            /\ UNCHANGED <<stPc, stLagged>>
       ELSE /\ stPc' = "joining"
            /\ stLagged' = IF StageRecvOutcome = "Lagged" THEN stLagged + 1 ELSE stLagged
            /\ stRx' = [stRx EXCEPT
                          !.next = IF StageRecvOutcome = "Lagged" THEN StageOldest ELSE @]
            /\ UNCHANGED tasks
    /\ UNCHANGED <<natsVars, restVars>>
    /\ UNCHANGED <<component, flowVars, stage, evSent, evOpen, sentAfterNew,
                   stResult, loopPc, fileContent>>

\* publisher.rs:33-34: the spawned task tests the stamp and, for an accepted
\* Event, creates (truncates) the file; `?` ends the task on an IO error.
FileTaskCreate(i) ==
    /\ component = "stage"
    /\ stage.kind = "file"
    /\ i \in DOMAIN tasks
    /\ tasks[i].pc = "spawned"
    /\ IF PredecessorPanics(stage.id, stage.checks)
       THEN /\ tasks' = [tasks EXCEPT ![i] = Finish(@, "panic_overflow")]
            /\ UNCHANGED fileContent
       ELSE IF ~Accepts(stage.id, tasks[i].stamp)
       THEN /\ tasks' = [tasks EXCEPT ![i] = Finish(@, "skipped")]
            /\ UNCHANGED fileContent
       ELSE \E created \in BOOLEAN :
            IF created
            THEN /\ tasks' = [tasks EXCEPT ![i].pc = "created"]
                 /\ fileContent' = <<"empty">>
            ELSE /\ tasks' = [tasks EXCEPT ![i] = Finish(@, "IO")]
                 /\ UNCHANGED fileContent
    /\ UNCHANGED <<natsVars, restVars>>
    /\ UNCHANGED <<component, flowVars, stage, evSent, evOpen, sentAfterNew,
                   stRx, stPc, stResult, loopPc, stLagged>>

\* publisher.rs:36-52: the batch is written with its header; `?` ends the
\* task on an Arrow error.
FileTaskWrite(i) ==
    /\ component = "stage"
    /\ stage.kind = "file"
    /\ i \in DOMAIN tasks
    /\ tasks[i].pc = "created"
    /\ IF tasks[i].q = "ok"
       THEN /\ tasks' = [tasks EXCEPT ![i] = Finish(@, "written")]
            /\ fileContent' = <<"batch", tasks[i].ev>>
       ELSE /\ tasks' = [tasks EXCEPT ![i] = Finish(@, "Arrow")]
            /\ UNCHANGED fileContent
    /\ UNCHANGED <<natsVars, restVars>>
    /\ UNCHANGED <<component, flowVars, stage, evSent, evOpen, sentAfterNew,
                   stRx, stPc, stResult, loopPc, stLagged>>

\* publisher.rs:58-60: try_join_all over the handles resolves when all of
\* them have, or as soon as one of them yields a JoinError (a panicked
\* task); its result is discarded and publish returns Ok(()).
FilePublishJoin ==
    /\ component = "stage"
    /\ stage.kind = "file"
    /\ stPc = "joining"
    /\ \/ \A i \in DOMAIN tasks : tasks[i].pc = "done"
       \/ \E i \in DOMAIN tasks : tasks[i].out = "panic_overflow"
    /\ stPc' = "returned"
    /\ stResult' = "Ok"
    /\ stRx' = [stRx EXCEPT !.owner = "dropped"]
    /\ UNCHANGED <<natsVars, restVars>>
    /\ UNCHANGED <<component, flowVars, stage, evSent, evOpen, sentAfterNew,
                   loopPc, tasks, stLagged, fileContent>>

---------------------------------------------------------------------------
(* Salesforce Publisher::publish, salesforce publisher.rs:35-121. *)

\* publisher.rs:38-72: connect and build the context (`?`), get_topic and
\* get_schema (unwrap), then spawn the receive loop and return Ok(()).
SfPublishStart ==
    /\ component = "stage"
    /\ stage.kind = "salesforce"
    /\ stPc = "publishing"
    /\ \E outcome \in {"ok", "error", "panic"} :
          CASE outcome = "ok" ->
                 /\ stPc' = "returned" /\ stResult' = "Ok"
                 /\ loopPc' = "running"
                 /\ stRx' = [stRx EXCEPT !.owner = "loop"]
            [] outcome = "error" ->
                 /\ stPc' = "returned" /\ stResult' = "FlowgenSalesforceAuth"
                 /\ stRx' = [stRx EXCEPT !.owner = "dropped"]
                 /\ UNCHANGED loopPc
            [] OTHER ->
                 /\ stPc' = "panicked" /\ stResult' = "panic"
                 /\ stRx' = [stRx EXCEPT !.owner = "dropped"]
                 /\ UNCHANGED loopPc
    /\ UNCHANGED <<natsVars, restVars>>
    /\ UNCHANGED <<component, flowVars, stage, evSent, evOpen, sentAfterNew,
                   tasks, stLagged, fileContent>>

\* What one turn of a receive loop does with the Event it received.
\* salesforce (publisher.rs:78-115): inputs that fail to extract are left
\* out, render_template(..).unwrap() and publish(..).unwrap() panic.
\* http (processor.rs:87-105): column_by_name(..).unwrap() and
\* render_template(..).unwrap() panic.
LoopOutcomes(kind, n, checks, stamp, q) ==
    IF PredecessorPanics(n, checks) THEN {"panic_overflow"}
    ELSE IF ~Accepts(n, stamp) THEN {"skipped"}
    ELSE IF q = "norender" THEN {"panic_render"}
    ELSE IF kind = "http"
    THEN (IF q = "noinput" THEN {"panic_input"} ELSE {"rendered"})
    ELSE {"published", "panic_rpc"}

Panics == {"panic_overflow", "panic_render", "panic_input", "panic_rpc"}

\* `while let Ok(event) = self.rx.recv().await` in the spawned task
\* (salesforce publisher.rs:77, processor.rs:86).
LoopRecv ==
    /\ component = "stage"
    /\ stage.kind \in {"salesforce", "http"}
    /\ loopPc = "running"
    /\ StageRecvOutcome # "Pending"
    /\ IF StageRecvOutcome = "Ok"
       THEN /\ \E stamp \in Stamps, q \in Qualities :
               \E out \in LoopOutcomes(stage.kind, stage.id, stage.checks, stamp, q) :
                  /\ tasks' = Append(tasks, Task(stRx.next, stamp, q, "done", out))
                  /\ loopPc' = IF out \in Panics THEN "panicked" ELSE loopPc
                  /\ stRx' = [owner |-> IF out \in Panics THEN "dropped" ELSE stRx.owner,
                              next |-> stRx.next + 1]
            /\ UNCHANGED stLagged
       ELSE /\ loopPc' = "done"
            /\ stLagged' = IF StageRecvOutcome = "Lagged" THEN stLagged + 1 ELSE stLagged
            /\ stRx' = [owner |-> "dropped",
                        next |-> IF StageRecvOutcome = "Lagged" THEN StageOldest
                                 ELSE stRx.next]
            /\ UNCHANGED tasks
    /\ UNCHANGED <<natsVars, restVars>>
    /\ UNCHANGED <<component, flowVars, stage, evSent, evOpen, sentAfterNew,
                   stPc, stResult, fileContent>>

\* salesforce publisher.rs:95-111: the PublishRequest made for an Event that
\* was rendered: the configured topic and a Vec holding the one ProducerEvent
\* pushed on it, with the schema id read at start-up (lines 63-75) and the
\* rendered payload of that Event.
PublishRequestOf(task) ==
    [topic_name |-> "config.topic",
     events |-> <<[schema_id |-> "schema_info.schema_id", payload |-> task.ev]>>]

\* The PublishRequests the loop has passed to Context::publish, in the order
\* of the calls: one per turn of the loop that reached line 103, whether the
\* RPC then succeeded or not.
PublishRequests ==
    LET reached == SelectSeq(tasks, LAMBDA t : t.out \in {"published", "panic_rpc"})
    IN  [k \in 1 .. Len(reached) |-> PublishRequestOf(reached[k])]

---------------------------------------------------------------------------
(* HTTP processor, processor.rs:40-143. *)

\* The cursor of the processor's Receiver: Builder::new subscribes
\* (processor.rs:71) and build() moves that Receiver into the task.
HttpLoopCursor(atNew, atBuild) == atNew

\* processor.rs:63-74: Builder::new clones tx and subscribes.
HttpNew ==
    /\ component = "stage"
    /\ stage.kind = "http"
    /\ stPc = "unbuilt"
    /\ stPc' = "new"
    /\ stRx' = [owner |-> "builder", next |-> SubscribeCursor(EventLog)]
    /\ UNCHANGED <<natsVars, restVars>>
    /\ UNCHANGED <<component, flowVars, stage, evSent, evOpen, sentAfterNew,
                   stResult, loopPc, tasks, stLagged, fileContent>>

\* processor.rs:76-142: build() spawns the receive loop and returns the
\* Processor holding its handle.
HttpBuild ==
    /\ component = "stage"
    /\ stage.kind = "http"
    /\ stPc = "new"
    /\ stPc' = "built"
    /\ loopPc' = "running"
    /\ stRx' = [owner |-> "loop",
                next |-> HttpLoopCursor(stRx.next, SubscribeCursor(EventLog))]
    /\ UNCHANGED <<natsVars, restVars>>
    /\ UNCHANGED <<component, flowVars, stage, evSent, evOpen, sentAfterNew,
                   stResult, tasks, stLagged, fileContent>>

\* processor.rs:40-50: process() spawns the join of handle_list and
\* returns Ok(()).
HttpProcess ==
    /\ component = "stage"
    /\ stage.kind = "http"
    /\ stPc = "built"
    /\ stPc' = "returned"
    /\ stResult' = "Ok"
    /\ UNCHANGED <<natsVars, restVars>>
    /\ UNCHANGED <<component, flowVars, stage, evSent, evOpen, sentAfterNew,
                   stRx, loopPc, tasks, stLagged, fileContent>>

---------------------------------------------------------------------------
(* The NATS subscriber, src/crates/nats/src/jetstream/subscriber.rs.       *)
(* Its payloads are opaque: the channel is modelled by its length.         *)

\* tokio::sync::mpsc::channel(200), subscriber.rs:45.
MpscCapacity == 200

\* subscriber.rs:44-80: Builder::build creates the channel, connects (`?`),
\* and spawns the subscribe task when the client holds a connection.
NatsBuild ==
    /\ component = "nats"
    /\ natsPc = "unbuilt"
    /\ \E outcome \in {"NatsClientAuth", "no_client", "spawned"} :
          /\ natsPc' = IF outcome = "spawned" THEN "subscribing" ELSE "not_spawned"
          /\ natsResult' = IF outcome = "NatsClientAuth" THEN outcome ELSE natsResult
          /\ mpscOpen' = (outcome # "NatsClientAuth")
    /\ UNCHANGED restVars
    /\ UNCHANGED <<component, flowVars, stageVars, mpscLen, natsSendFailed>>

\* subscriber.rs:61: client.subscribe(..).await.unwrap().
NatsTaskSubscribe ==
    /\ component = "nats"
    /\ natsPc = "subscribing"
    /\ \E ok \in BOOLEAN :
          /\ natsPc' = IF ok THEN "next" ELSE "panicked"
          /\ natsResult' = IF ok THEN natsResult ELSE "panic"
    /\ UNCHANGED restVars
    /\ UNCHANGED <<component, flowVars, stageVars, mpscLen, mpscOpen,
                   natsSendFailed>>

\* What the subscribe task does when tx.send(..).await returned an error
\* (subscriber.rs:64-66): the Result of map_err is dropped and the loop goes on.
NatsAfterSendError == [pc |-> "next", result |-> "none"]

\* mpsc Sender::send: an error when the Receiver is gone, the payload queued
\* when there is room, and otherwise the sender waits for room.
MpscSend(len, open) ==
    IF ~open THEN "Err"
    ELSE IF len < MpscCapacity THEN "Queued"
    ELSE "Wait"

\* subscriber.rs:63-68: the next message of the subscription is sent on the
\* channel; the end of the subscription ends the task with Ok(()).
NatsTaskNext ==
    /\ component = "nats"
    /\ natsPc = "next"
    /\ \E item \in {"Some", "None"} :
          IF item = "None"
          THEN /\ natsPc' = "done"
               /\ natsResult' = "Ok"
               /\ UNCHANGED <<mpscLen, natsSendFailed>>
          ELSE CASE MpscSend(mpscLen, mpscOpen) = "Err" ->
                      /\ natsSendFailed' = TRUE
                      /\ natsPc' = NatsAfterSendError.pc
                      /\ natsResult' = NatsAfterSendError.result
                      /\ UNCHANGED mpscLen
                 [] MpscSend(mpscLen, mpscOpen) = "Queued" ->
                      /\ mpscLen' = mpscLen + 1
                      /\ UNCHANGED <<natsPc, natsResult, natsSendFailed>>
                 [] OTHER ->
                      /\ natsPc' = "send_wait"
                      /\ UNCHANGED <<mpscLen, natsResult, natsSendFailed>>
    /\ UNCHANGED restVars
    /\ UNCHANGED <<component, flowVars, stageVars, mpscOpen>>

\* The suspended send() resumes when the Receiver made room or went away.
NatsTaskSendResumes ==
    /\ component = "nats"
    /\ natsPc = "send_wait"
    /\ MpscSend(mpscLen, mpscOpen) # "Wait"
    /\ IF MpscSend(mpscLen, mpscOpen) = "Err"
       THEN /\ natsSendFailed' = TRUE
            /\ natsPc' = NatsAfterSendError.pc
            /\ natsResult' = NatsAfterSendError.result
            /\ UNCHANGED mpscLen
       ELSE /\ mpscLen' = mpscLen + 1
            /\ natsPc' = "next"
            /\ UNCHANGED <<natsResult, natsSendFailed>>
    /\ UNCHANGED restVars
    /\ UNCHANGED <<component, flowVars, stageVars, mpscOpen>>

\* The owner of the Subscriber reads a payload from `rx`.
MpscRecv ==
    /\ component = "nats"
    /\ mpscOpen
    /\ mpscLen > 0
    /\ mpscLen' = mpscLen - 1
    /\ UNCHANGED restVars
    /\ UNCHANGED <<component, flowVars, stageVars, natsPc, natsResult,
                   mpscOpen, natsSendFailed>>

\* The owner of the Subscriber closes or drops `rx`.
MpscClose ==
    /\ component = "nats"
    /\ mpscOpen
    /\ mpscOpen' = FALSE
    /\ UNCHANGED restVars
    /\ UNCHANGED <<component, flowVars, stageVars, natsPc, natsResult,
                   mpscLen, natsSendFailed>>

---------------------------------------------------------------------------
(* The NATS key/value cache, src/crates/nats/src/cache.rs.  The server is  *)
(* modelled by its buckets; a revision of a key is identified by its       *)
(* number, so a bucket keeps of a key the last `history` numbers.          *)

Buckets == {"b1", "b2"}
Keys == {"k1", "k2"}

\* `history: 10`, cache.rs:50.
HistoryDepth == 10

\* The number of put calls that succeed in one behaviour.
MaxPuts == 11

\* A faulty init that asks for one revision more.
HistoryOneMore == HistoryDepth + 1

\* The history depth Cache::init passes to create_key_value (cache.rs:48-52).
CreateHistory == HistoryDepth

\* The number of revisions of key k the bucket b retains.
Retained(b, k) ==
    IF kvPuts[b][k] < kvHistory[b] THEN kvPuts[b][k] ELSE kvHistory[b]

TotalPuts ==
    kvPuts["b1"]["k1"] + kvPuts["b1"]["k2"] + kvPuts["b2"]["k1"] + kvPuts["b2"]["k2"]

\* A call and its outcome: found, created: get_key_value returned the
\* bucket, create_key_value was called; value: the revision a get returned;
\* envOk: the server answered every request of the call.
CallResult(op, arg, result, value, found, created, envOk) ==
    [op |-> op, arg |-> arg, result |-> result, value |-> value,
     found |-> found, created |-> created, envOk |-> envOk]

\* cache.rs:107-114: CacheBuilder::build needs credentials_path.
CacheBuilderBuild ==
    /\ component = "cache"
    /\ \E hasCredentials \in BOOLEAN :
          IF hasCredentials
          THEN /\ cacheStore' = "None"
               /\ cacheResult' = CallResult("build", "-", "Ok", 0, FALSE, FALSE, TRUE)
          ELSE /\ cacheStore' = "nocache"
               /\ cacheResult' = CallResult("build", "-", "MissingRequiredAttribute",
                                            0, FALSE, FALSE, TRUE)
    /\ UNCHANGED <<eventVars, laterVars>>
    /\ UNCHANGED <<component, flowVars, stageVars, natsVars, kvHistory, kvPuts,
                   kvCreates>>

\* A faulty init that keeps the store only of a bucket it created.
StoreOnlyWhenCreated(b, found) == IF found THEN "None" ELSE b

\* cache.rs:45-57: `store` is the bucket get_key_value returned or the one
\* create_key_value returned, and self.store = Some(store).
StoreAfterInit(b, found) == b

\* The server's answer to create_key_value: a bucket that exists with the
\* same configuration is returned as it is; one that exists with another
\* configuration is refused.
ServerCreates(b, history) ==
    IF kvHistory[b] = 0 THEN "created"
    ELSE IF kvHistory[b] = history THEN "exists"
    ELSE "refused"

\* cache.rs:35-59: Cache::init.  `mut self` is consumed: an Err drops the
\* Cache.  connected: the client connects; fetched: the get_key_value
\* request is answered; createAnswered: the create_key_value request is.
CacheInit(b) ==
    /\ component = "cache"
    /\ cacheStore # "nocache"
    /\ \E connected, fetched, createAnswered \in BOOLEAN :
          LET found == kvHistory[b] > 0 /\ fetched
              envOk == connected /\ fetched /\ createAnswered
              server == ServerCreates(b, CreateHistory)
          IN  IF ~connected
              THEN /\ cacheStore' = "nocache"
                   /\ cacheResult' = CallResult("init", b, "NatsClientAuth",
                                                0, FALSE, FALSE, envOk)
                   /\ UNCHANGED <<kvHistory, kvCreates>>
              ELSE IF found
              THEN /\ cacheStore' = StoreAfterInit(b, TRUE)
                   /\ cacheResult' = CallResult("init", b, "Ok", 0, TRUE, FALSE, envOk)
                   /\ UNCHANGED <<kvHistory, kvCreates>>
              ELSE IF ~createAnswered \/ server = "refused"
              THEN /\ cacheStore' = "nocache"
                   /\ cacheResult' = CallResult("init", b, "NatsKVBucketCreate",
                                                0, FALSE, TRUE, envOk)
                   /\ UNCHANGED <<kvHistory, kvCreates>>
              ELSE /\ cacheStore' = StoreAfterInit(b, FALSE)
                   /\ cacheResult' = CallResult("init", b, "Ok", 0, FALSE, TRUE, envOk)
                   /\ kvHistory' = IF server = "created"
                                   THEN [kvHistory EXCEPT ![b] = CreateHistory]
                                   ELSE kvHistory
                   /\ kvCreates' = IF server = "created"
                                   THEN [kvCreates EXCEPT ![b] = @ + 1]
                                   ELSE kvCreates
    /\ UNCHANGED <<eventVars, laterVars>>
    /\ UNCHANGED <<component, flowVars, stageVars, natsVars, kvPuts>>

\* A faulty check that reports a missing store whatever the Cache holds.
StoreAlwaysMissing(store) == TRUE

\* `self.store.as_ref().ok_or(Error::MissingCacheStore())?` (cache.rs:62,
\* 67): the error is returned when store is None, before any request.
StoreMissing(store) == store = "None"

\* cache.rs:61-65: Cache::put.
CachePut(k) ==
    /\ component = "cache"
    /\ cacheStore # "nocache"
    /\ IF StoreMissing(cacheStore)
       THEN /\ cacheResult' = CallResult("put", k, "MissingCacheStore",
                                         0, FALSE, FALSE, TRUE)
            /\ UNCHANGED kvPuts
       ELSE \E answered \in BOOLEAN :
            IF answered
            THEN /\ TotalPuts < MaxPuts
                 /\ kvPuts' = [kvPuts EXCEPT ![cacheStore][k] = @ + 1]
                 /\ cacheResult' = CallResult("put", k, "Ok", 0, FALSE, FALSE, TRUE)
            ELSE /\ cacheResult' = CallResult("put", k, "NatsKVPut",
                                              0, FALSE, FALSE, FALSE)
                 /\ UNCHANGED kvPuts
    /\ UNCHANGED <<eventVars, laterVars>>
    /\ UNCHANGED <<component, flowVars, stageVars, natsVars, cacheStore,
                   kvHistory, kvCreates>>

\* A faulty get that answers a key never set with an empty value.
GetEmptyAsOk(b, k) == <<"Ok", kvPuts[b][k]>>

\* A faulty get that answers with the revision before the latest one.
GetStaleRevision(b, k) ==
    IF kvPuts[b][k] <= 1 THEN <<"EmptyBuffer", 0>> ELSE <<"Ok", kvPuts[b][k] - 1>>

\* cache.rs:68-73: store.get(key) answers None for a key without a revision
\* and `.ok_or(Error::EmptyBuffer())?` turns that into the error; otherwise
\* the latest revision is returned.
GetAnswer(b, k) ==
    IF kvPuts[b][k] = 0 THEN <<"EmptyBuffer", 0>> ELSE <<"Ok", kvPuts[b][k]>>

\* cache.rs:66-74: Cache::get.
CacheGet(k) ==
    /\ component = "cache"
    /\ cacheStore # "nocache"
    /\ IF StoreMissing(cacheStore)
       THEN cacheResult' = CallResult("get", k, "MissingCacheStore", 0,
                                      FALSE, FALSE, TRUE)
       ELSE \E answered \in BOOLEAN :
            cacheResult' =
                IF answered
                THEN CallResult("get", k, GetAnswer(cacheStore, k)[1],
                                GetAnswer(cacheStore, k)[2], FALSE, FALSE, TRUE)
                ELSE CallResult("get", k, "NatsKVEntry", 0,
                                FALSE, FALSE, FALSE)
    /\ UNCHANGED <<eventVars, laterVars>>
    /\ UNCHANGED <<component, flowVars, stageVars, natsVars, cacheStore,
                   kvHistory, kvPuts, kvCreates>>

---------------------------------------------------------------------------
(* EventExt::adjust_data_precision, src/crates/deltalake/src/event.rs.     *)
(* A RecordBatch is its schema metadata and its columns; a column is its   *)
(* Field (name, type, tz, nullable, meta) and its array (arrayTz, values). *)
(* A cell is <<>> for null and <<v>> for the value v.                      *)

ColumnNames == <<"c1", "c2">>

\* The number of rows of a batch.
NumRows == 2

\* The number of calls of adjust_data_precision on one Event.
MaxPasses == 2

\* i64::MAX and the wrap of an i64.  The model's i64 is 16 bits wide; a
\* product that leaves the range is what matters.
I64Max == 2^15 - 1
WrapI64(x) == ((x + I64Max + 1) % (2 * (I64Max + 1))) - (I64Max + 1)

\* A value whose thousandfold does not fit the model's i64.
BigMillis == 40

Cells == {<<>>, <<-3>>, <<BigMillis>>}

TypeAndTz ==
    {<<"Utf8", "none">>,
     <<"Timestamp_Millisecond", "none">>, <<"Timestamp_Millisecond", "UTC">>,
     <<"Timestamp_Microsecond", "none">>, <<"Timestamp_Microsecond", "UTC">>}

Column(name, type, tz, nullable, meta, arrayTz, values) ==
    [name |-> name, type |-> type, tz |-> tz, nullable |-> nullable,
     meta |-> meta, arrayTz |-> arrayTz, values |-> values]

\* The columns a valid RecordBatch can hold under `name`: the array has the
\* Field's data type, and a null only where the Field is nullable.
ColumnsNamed(name) ==
    {c \in {Column(name, tt[1], tt[2], nullable, meta, tt[2], values) :
                tt \in TypeAndTz, nullable \in BOOLEAN, meta \in BOOLEAN,
                values \in [1 .. NumRows -> Cells]} :
        c.nullable \/ \A i \in 1 .. NumRows : c.values[i] # <<>>}

Batches ==
    {[schemaMeta |-> sm, columns |-> <<c1, c2>>] :
        sm \in BOOLEAN,
        c1 \in ColumnsNamed(ColumnNames[1]),
        c2 \in ColumnsNamed(ColumnNames[2])}

EventOf(data) ==
    [data |-> data, subject |-> "subject", extensions |-> "extensions",
     current_task_id |-> 0]

\* event.rs:47: `val.map(|ms| ms * 1000)` on Option<i64>.
Micros(cell) == IF cell = <<>> THEN <<>> ELSE <<WrapI64(cell[1] * 1000)>>

\* The multiplication leaves the range of i64 for a cell of the column.
Overflows(c) ==
    \E i \in DOMAIN c.values :
        c.values[i] # <<>> /\ WrapI64(c.values[i][1] * 1000) # c.values[i][1] * 1000

\* event.rs:28-57, one turn of the loop over the fields.  For a millisecond
\* timestamp: Field::new(name, Timestamp(Microsecond, tz), nullable), which
\* carries no metadata, and TimestampMicrosecondArray::from(micros_data),
\* an array of type Timestamp(Microsecond, None).  Any other field and its
\* column are cloned.
AdjustColumn(c) ==
    IF c.type = "Timestamp_Millisecond"
    THEN Column(c.name, "Timestamp_Microsecond", c.tz, c.nullable, FALSE, "none",
                [i \in DOMAIN c.values |-> Micros(c.values[i])])
    ELSE c

\* RecordBatch::try_new (event.rs:61): each array's data type must equal
\* the type of its Field.
TryNewAccepts(columns) ==
    \A i \in DOMAIN columns : columns[i].arrayTz = columns[i].tz

\* event.rs:20-65.  checks: the build panics on arithmetic overflow.
\* Schema::new(new_fields) carries no schema metadata.
AdjustResult(data, checks) ==
    LET columns == [i \in DOMAIN data.columns |-> AdjustColumn(data.columns[i])]
        overflow == \E i \in DOMAIN data.columns :
                        /\ data.columns[i].type = "Timestamp_Millisecond"
                        /\ Overflows(data.columns[i])
    IN  IF checks /\ overflow THEN [result |-> "panic", data |-> data]
        ELSE IF ~TryNewAccepts(columns) THEN [result |-> "Arrow", data |-> data]
        ELSE [result |-> "Ok", data |-> [schemaMeta |-> FALSE, columns |-> columns]]

AdjustDataPrecision ==
    /\ component = "event"
    /\ evPc = "ready"
    /\ Len(evTrace) < MaxPasses
    /\ \E checks \in BOOLEAN :
          LET r == AdjustResult(event.data, checks) IN
          /\ event' = [event EXCEPT !.data = r.data]
          /\ evTrace' = Append(evTrace, r)
          /\ evPc' = IF r.result = "panic" THEN "panicked" ELSE evPc
    /\ UNCHANGED <<component, flowVars, stageVars, natsVars, cacheVars, eventIn,
                   laterVars>>

---------------------------------------------------------------------------
(* The variables a step of one of the later components leaves alone: those *)
(* of every other one of them.                                             *)
LaterFrame(g) ==
    /\ IF g = "json" THEN TRUE ELSE UNCHANGED jsonVars
    /\ IF g = "message" THEN TRUE ELSE UNCHANGED messageVars
    /\ IF g = "pubsub" THEN TRUE ELSE UNCHANGED pubsubVars
    /\ IF g = "fanout" THEN TRUE ELSE UNCHANGED fanoutVars
    /\ IF g = "target" THEN TRUE ELSE UNCHANGED targetVars
    /\ IF g = "client" THEN TRUE ELSE UNCHANGED clientVars
    /\ IF g = "builder" THEN TRUE ELSE UNCHANGED builderVars

---------------------------------------------------------------------------
(* RecordBatchExt::to_recordbatch for serde_json::Value,                   *)
(* src/crates/core/src/message.rs:22-44.                                   *)
(* A JSON value is its kind and its text as serde_json prints it; an       *)
(* object also has members, a sequence of <<key, value>> in the order the  *)
(* Map iterates them.                                                      *)

JsonKeys == <<"a", "b", "c">>

Json(kind, text, members) == [kind |-> kind, text |-> text, members |-> members]

\* The values a member of an object holds (the members of a nested array or
\* object play no part in the conversion).
JsonScalars ==
    {Json("null", "null", <<>>), Json("bool", "true", <<>>),
     Json("number", "1", <<>>), Json("string", "s", <<>>),
     Json("array", "[]", <<>>), Json("object", "{}", <<>>)}

\* The subsequence of JsonKeys whose keys are in `keys`, with the value each holds.
RECURSIVE MembersFrom(_, _, _)
MembersFrom(i, keys, valueOf) ==
    IF i > Len(JsonKeys) THEN <<>>
    ELSE IF JsonKeys[i] \in keys
    THEN <<<<JsonKeys[i], valueOf[JsonKeys[i]]>>>> \o MembersFrom(i + 1, keys, valueOf)
    ELSE MembersFrom(i + 1, keys, valueOf)

JsonObjects ==
    UNION {{Json("object", IF keys = {} THEN "{}" ELSE "{..}",
                 MembersFrom(1, keys, valueOf)) :
                valueOf \in [keys -> JsonScalars]} :
           keys \in SUBSET {JsonKeys[i] : i \in DOMAIN JsonKeys}}

JsonValues == JsonScalars \cup JsonObjects

\* Value::to_string (message.rs:31): the JSON text of the value; a string
\* is printed with its quotes.
JsonToString(v) == IF v.kind = "string" THEN "\"" \o v.text \o "\"" ELSE v.text

\* message.rs:25, `self.as_object().unwrap()`: as_object is None for every
\* value that is not an object.
AsObject(v) == IF v.kind = "object" THEN <<v.members>> ELSE <<>>

\* message.rs:29-33: per member a nullable Utf8 Field named after the key
\* and a StringArray of the one value's text.
StringColumn(member) ==
    [name |-> member[1], type |-> "Utf8", nullable |-> TRUE,
     values |-> <<JsonToString(member[2])>>]

\* RecordBatch::try_new (message.rs:41) without a row count: the number of
\* rows is read from the first column, and there must be one.
TryNewOfColumns(columns) == IF columns = <<>> THEN "Err" ELSE "Ok"

\* message.rs:24-43.  Both unwraps panic; there is no Err path.
ToRecordBatchResult(v) ==
    IF AsObject(v) = <<>> THEN [result |-> "panic", columns |-> <<>>]
    ELSE LET map == AsObject(v)[1]
             columns == [i \in DOMAIN map |-> StringColumn(map[i])]
         IN  IF TryNewOfColumns(columns) = "Err"
             THEN [result |-> "panic", columns |-> <<>>]
             ELSE [result |-> "Ok", columns |-> columns]

ToRecordbatch ==
    /\ component = "json"
    /\ toBatch.result = "none"
    /\ toBatch' = ToRecordBatchResult(jsonIn)
    /\ UNCHANGED <<component, flowVars, stageVars, natsVars, cacheVars,
                   eventVars, jsonIn>>
    /\ LaterFrame("json")

---------------------------------------------------------------------------
(* TryFrom<Message> for Vec<u8>, src/crates/core/src/message.rs:46-56.     *)
(* The bytes are an Arrow IPC stream: a schema message, one record batch   *)
(* message and the end-of-stream marker.  A record batch message holds,    *)
(* per column, the validity bitmap and the value buffer; a null's slot in  *)
(* the value buffer is zero.                                               *)

\* The tables of a Message: a nullable string column and any valid column.
MessageTables ==
    {[schemaMeta |-> sm, columns |-> <<c1, c2>>] :
        sm \in BOOLEAN,
        c1 \in {c \in ColumnsNamed(ColumnNames[1]) :
                    c.type = "Utf8" /\ c.nullable /\ ~c.meta},
        c2 \in ColumnsNamed(ColumnNames[2])}

Message(data) == [data |-> data, subject |-> "subject"]

\* StreamWriter::try_new(buffer, &schema) (message.rs:50-51) writes the
\* schema: its metadata and its fields.
SchemaMessage(data) ==
    [tag |-> "schema", schemaMeta |-> data.schemaMeta,
     fields |-> [i \in DOMAIN data.columns |->
                    [name |-> data.columns[i].name, type |-> data.columns[i].type,
                     tz |-> data.columns[i].tz,
                     nullable |-> data.columns[i].nullable,
                     meta |-> data.columns[i].meta]]]

\* A faulty writer that leaves the validity bitmaps out: every slot counts
\* as a value.
BatchWithoutValidity(data) ==
    [tag |-> "batch",
     nodes |-> [i \in DOMAIN data.columns |->
        [validity |-> [r \in DOMAIN data.columns[i].values |-> TRUE],
         buffer |-> [r \in DOMAIN data.columns[i].values |->
                        IF data.columns[i].values[r] = <<>> THEN 0
                        ELSE data.columns[i].values[r][1]]]]]

\* stream_writer.write(&value.data) (message.rs:52) writes the batch.
BatchMessage(data) ==
    [tag |-> "batch",
     nodes |-> [i \in DOMAIN data.columns |->
        [validity |-> [r \in DOMAIN data.columns[i].values |->
                          data.columns[i].values[r] # <<>>],
         buffer |-> [r \in DOMAIN data.columns[i].values |->
                        IF data.columns[i].values[r] = <<>> THEN 0
                        ELSE data.columns[i].values[r][1]]]]]

\* stream_writer.finish() (message.rs:53) writes the end-of-stream marker.
EndOfStream == [tag |-> "eos"]

\* message.rs:48-55.  The writer's sink is a Vec<u8>, whose writes do not
\* fail, so each `?` passes; Message.subject is not written.
BytesOf(m) ==
    [result |-> "Ok",
     bytes |-> <<SchemaMessage(m.data), BatchMessage(m.data), EndOfStream>>]

\* Reading the stream back: the schema message gives the fields, the first
\* record batch message the cells, and each array has its field's type.
TableOf(bytes) ==
    LET schema == bytes[1]
        batch == bytes[2]
    IN  [schemaMeta |-> schema.schemaMeta,
         columns |-> [i \in DOMAIN schema.fields |->
            Column(schema.fields[i].name, schema.fields[i].type,
                   schema.fields[i].tz, schema.fields[i].nullable,
                   schema.fields[i].meta, schema.fields[i].tz,
                   [r \in DOMAIN batch.nodes[i].buffer |->
                       IF batch.nodes[i].validity[r]
                       THEN <<batch.nodes[i].buffer[r]>> ELSE <<>>])]]

MessageTryFrom ==
    /\ component = "message"
    /\ msgBytes.result = "none"
    /\ msgBytes' = BytesOf(msgIn)
    /\ UNCHANGED <<component, flowVars, stageVars, natsVars, cacheVars,
                   eventVars, msgIn, msgBack>>
    /\ LaterFrame("message")

ReadBack ==
    /\ component = "message"
    /\ msgBytes.result = "Ok"
    /\ msgBack.result = "none"
    /\ msgBack' = [result |-> "Ok", data |-> TableOf(msgBytes.bytes)]
    /\ UNCHANGED <<component, flowVars, stageVars, natsVars, cacheVars,
                   eventVars, msgIn, msgBytes>>
    /\ LaterFrame("message")

---------------------------------------------------------------------------
(* The Arc<Mutex<Context>> of the Salesforce subscriber,                   *)
(* src/crates/salesforce/src/pubsub/subscriber.rs:97-147.                  *)
(* tokio::sync::Mutex hands the lock to pending lock() calls in the order  *)
(* they were made.  A MutexGuard made inside `let x = pubsub.lock().await  *)
(* .rpc(..).await ... ;` is a temporary of that statement and is dropped   *)
(* when the statement ends, on the `?` return as well.                     *)

\* The number of items a topic task takes from its stream.
MaxItems == 2

\* The two statements of a topic task that lock the context, in order.
Rpcs == <<"get_topic", "subscribe">>

\* A faulty topic task that binds the guard to a local before subscribe(),
\* so that it lives on while the stream is read.
GuardKeptForStream(t, rpc) == IF rpc = "subscribe" THEN t ELSE "none"

\* Who holds the lock once the statement with the RPC `rpc` of task t has
\* ended (subscriber.rs:105-113, 115-125): the temporary guard is dropped.
HolderAfterStatement(t, rpc) == "none"

\* subscriber.rs:106-107, 116-117: `pubsub.lock()` is called and awaited.
CtxLock(t) ==
    /\ component = "pubsub"
    /\ rpcPc[t] \in {"get_topic", "subscribe"}
    /\ rpcPc' = [rpcPc EXCEPT ![t] = "lock_" \o @]
    /\ ctxWaiters' = Append(ctxWaiters, t)
    /\ UNCHANGED <<component, flowVars, stageVars, natsVars, cacheVars,
                   eventVars, ctxHolder, streamItems>>
    /\ LaterFrame("pubsub")

\* The mutex is free and t's lock() is the oldest pending: t gets the guard
\* and starts the RPC on the context (subscriber.rs:108, 118).
CtxAcquire(t) ==
    /\ component = "pubsub"
    /\ rpcPc[t] \in {"lock_get_topic", "lock_subscribe"}
    /\ ctxHolder = "none"
    /\ ctxWaiters # <<>> /\ Head(ctxWaiters) = t
    /\ ctxHolder' = t
    /\ ctxWaiters' = Tail(ctxWaiters)
    /\ rpcPc' = [rpcPc EXCEPT ![t] = IF @ = "lock_get_topic" THEN "rpc_get_topic"
                                     ELSE "rpc_subscribe"]
    /\ UNCHANGED <<component, flowVars, stageVars, natsVars, cacheVars,
                   eventVars, streamItems>>
    /\ LaterFrame("pubsub")

\* The RPC returns and the statement ends (subscriber.rs:111-113, 123-125):
\* Ok goes on to the next statement, Err ends the task by `?`.
CtxRpcReturns(t) ==
    /\ component = "pubsub"
    /\ rpcPc[t] \in {"rpc_get_topic", "rpc_subscribe"}
    /\ ctxHolder = t
    /\ LET rpc == IF rpcPc[t] = "rpc_get_topic" THEN Rpcs[1] ELSE Rpcs[2] IN
       /\ ctxHolder' = HolderAfterStatement(t, rpc)
       /\ \E ok \in BOOLEAN :
             rpcPc' = [rpcPc EXCEPT ![t] =
                          IF ~ok THEN "done"
                          ELSE IF rpc = "get_topic" THEN "subscribe" ELSE "stream"]
    /\ UNCHANGED <<component, flowVars, stageVars, natsVars, cacheVars,
                   eventVars, ctxWaiters, streamItems>>
    /\ LaterFrame("pubsub")

\* subscriber.rs:127-144: the task awaits stream.next(); an item is sent on,
\* an error or the end of the stream ends the task.
CtxStreamNext(t) ==
    /\ component = "pubsub"
    /\ rpcPc[t] = "stream"
    /\ \E item \in {"Ok", "End"} :
          IF item = "Ok"
          THEN /\ streamItems[t] < MaxItems
               /\ streamItems' = [streamItems EXCEPT ![t] = @ + 1]
               /\ UNCHANGED <<rpcPc, ctxHolder>>
          ELSE /\ rpcPc' = [rpcPc EXCEPT ![t] = "done"]
               \* the task's locals are dropped
               /\ ctxHolder' = IF ctxHolder = t THEN "none" ELSE ctxHolder
               /\ UNCHANGED streamItems
    /\ UNCHANGED <<component, flowVars, stageVars, natsVars, cacheVars,
                   eventVars, ctxWaiters>>
    /\ LaterFrame("pubsub")

---------------------------------------------------------------------------
(* One Event on the broadcast bus and the subscribers that receive it.     *)
(* recv() gives each Receiver a clone of the Event; the clone of a         *)
(* RecordBatch shares its arrays with the original (they are behind Arc),  *)
(* so an Event holds the addresses of its arrays in `arrays`.              *)
(* adjust_data_precision (src/crates/deltalake/src/event.rs:20-65) is what *)
(* a subscriber does to the Event it received.                             *)

Subscribers == {"delta", "other"}

\* An Event whose columns are the arrays at `refs`.
EventAt(schemaMeta, refs, e) ==
    [data |-> [schemaMeta |-> schemaMeta, columns |-> refs],
     subject |-> e.subject, extensions |-> e.extensions,
     current_task_id |-> e.current_task_id]

\* The Event as its holder reads it: each address replaced by the array there.
Deref(h, e) ==
    [e EXCEPT !.data.columns = [i \in DOMAIN e.data.columns |-> h[e.data.columns[i]]]]

\* A faulty conversion that writes the microseconds into the array it read.
ReuseArray(h, old) == old

\* event.rs:50-51: TimestampMicrosecondArray::from(micros_data) is a new
\* array, behind a new Arc.
NewArrayAddress(h, old) == Len(h) + 1

\* event.rs:27-58 on the arrays in memory, from column i on: a millisecond
\* column gets the array at NewArrayAddress, any other column keeps its
\* array (`columns[i].clone()` clones the Arc).
RECURSIVE AdjustInMemory(_, _, _)
AdjustInMemory(h, refs, i) ==
    IF i > Len(refs) THEN [arrays |-> h, columns |-> <<>>]
    ELSE IF h[refs[i]].type = "Timestamp_Millisecond"
    THEN LET a == NewArrayAddress(h, refs[i])
             h2 == IF a > Len(h) THEN Append(h, AdjustColumn(h[refs[i]]))
                   ELSE [h EXCEPT ![a] = AdjustColumn(h[refs[i]])]
             rest == AdjustInMemory(h2, refs, i + 1)
         IN  [arrays |-> rest.arrays, columns |-> <<a>> \o rest.columns]
    ELSE LET rest == AdjustInMemory(h, refs, i + 1)
         IN  [arrays |-> rest.arrays, columns |-> <<refs[i]>> \o rest.columns]

\* rx.recv(): the subscriber gets a clone of the Event in the channel.
FanoutRecv(s) ==
    /\ component = "fanout"
    /\ ~subs[s].got
    /\ subs' = [subs EXCEPT ![s] = [got |-> TRUE, passes |-> 0, event |-> slot]]
    /\ UNCHANGED <<component, flowVars, stageVars, natsVars, cacheVars,
                   eventVars, pubEvent, arrays, slot>>
    /\ LaterFrame("fanout")

\* event.rs:20-65 called by subscriber s on the Event it received.  On Ok
\* `self.data = new_batch`; on Err and on a panic the new arrays are dropped
\* and self.data is as it was.
FanoutAdjust(s) ==
    /\ component = "fanout"
    /\ subs[s].got
    /\ subs[s].passes < MaxPasses
    /\ \E checks \in BOOLEAN :
          LET mine == subs[s].event
              r == AdjustResult(Deref(arrays, mine).data, checks)
              m == AdjustInMemory(arrays, mine.data.columns, 1)
          IN  IF r.result = "Ok"
              THEN /\ arrays' = m.arrays
                   /\ subs' = [subs EXCEPT
                                  ![s].passes = @ + 1,
                                  ![s].event = EventAt(FALSE, m.columns, mine)]
              ELSE /\ subs' = [subs EXCEPT ![s].passes = MaxPasses]
                   /\ UNCHANGED arrays
    /\ UNCHANGED <<component, flowVars, stageVars, natsVars, cacheVars,
                   eventVars, pubEvent, slot>>
    /\ LaterFrame("fanout")

---------------------------------------------------------------------------
(* The match of the NATS target loop, src/flowgen/src/flow.rs:127-166,     *)
(* message by message and, for a Salesforce message, event by event.       *)
(* A string the loop takes apart is a sequence of characters.              *)

\* The number of messages the loop is handed.
QueueLen == 2

\* The largest number of events in one fetch response.
MaxFetched == 2

\* TopicInfo.topic_name of the topics.
TopicNames == {<<"/", "e", "/", "A">>, <<"/", "d", "/", "B">>}

FileChunks == {"chunk1", "chunk2"}

\* ConsumerEvent.event: <<>> for None, <<id>> for a ProducerEvent with that id.
ConsumerEvents == {<<>>, <<"id1">>}

FetchedEvents == UNION {[1 .. n -> ConsumerEvents] : n \in 0 .. MaxFetched}

ChannelMessage(variant, file_chunk, topic_name, events) ==
    [variant |-> variant, file_chunk |-> file_chunk, topic_name |-> topic_name,
     events |-> events]

ChannelMessages ==
    {ChannelMessage("file", c, <<>>, <<>>) : c \in FileChunks}
    \cup {ChannelMessage("salesforce_pubsub", "-", n, es) :
            n \in TopicNames, es \in FetchedEvents}
    \cup {ChannelMessage("nats_jetstream", "-", <<>>, <<>>)}

\* char::to_lowercase on the characters of the topic names.
ToLowercase(c) == CASE c = "A" -> "a" [] c = "B" -> "b" [] OTHER -> c

\* flow.rs:145-147: topic_name.replace('/', ".").to_lowercase(), then
\* `&s[1..]`, the string without its first character.
EventName(topic_name) ==
    LET s == [i \in DOMAIN topic_name |->
                 IF topic_name[i] = "/" THEN "." ELSE ToLowercase(topic_name[i])]
    IN  SubSeq(s, 2, Len(s))

\* flow.rs:131: format!("filedrop.in.{}", m.file_chunk).
FileSubject(m) == <<"filedrop.in", m.file_chunk>>

\* flow.rs:148-149: format!("salesforce.pubsub.in.{}.{}", event_name, pe.id).
SalesforceSubject(m, pe) == <<"salesforce.pubsub.in", EventName(m.topic_name), pe[1]>>

\* A faulty loop that looks at the first event of the fetch response only.
FirstEventOnly(m) == IF m.events = <<>> THEN <<>> ELSE <<m.events[1]>>

\* flow.rs:142: `for ce in m.fetch_response.events`.
EventsToPublish(m) == m.events

\* What one publish of the loop comes to: to_bytes().unwrap() panics on a
\* record that does not convert (flow.rs:130, 144), send_publish(..).await
\* .map_err(Error::NatsPublish)? returns the broker's refusal (133-137,
\* 151-158).
PublishOutcomes == {"published", "refused", "unconvertible"}

\* flow.rs:127-141, 164: recv(), and the arms for a file message and for a
\* message of another variant; a Salesforce message enters the for loop.
TargetLoopRecv ==
    /\ component = "target"
    /\ tgPc = "recv"
    /\ IF tgNext > Len(tgQueue)
       THEN /\ tgPc' = "ended"
            /\ UNCHANGED <<tgNext, tgEvent, tgOut>>
       ELSE LET m == tgQueue[tgNext] IN
            CASE m.variant = "file" ->
                    \E o \in PublishOutcomes :
                       /\ tgPc' = CASE o = "published" -> "recv"
                                    [] o = "refused" -> "returned"
                                    [] OTHER -> "panicked"
                       /\ tgOut' = IF o = "published"
                                   THEN Append(tgOut, <<tgNext, FileSubject(m)>>)
                                   ELSE tgOut
                       /\ tgNext' = IF o = "published" THEN tgNext + 1 ELSE tgNext
                       /\ UNCHANGED tgEvent
              [] m.variant = "salesforce_pubsub" ->
                    IF EventsToPublish(m) = <<>>
                    THEN /\ tgNext' = tgNext + 1
                         /\ UNCHANGED <<tgPc, tgEvent, tgOut>>
                    ELSE /\ tgPc' = "events"
                         /\ tgEvent' = 1
                         /\ UNCHANGED <<tgNext, tgOut>>
              [] OTHER ->
                    /\ tgNext' = tgNext + 1
                    /\ UNCHANGED <<tgPc, tgEvent, tgOut>>
    /\ UNCHANGED <<component, flowVars, stageVars, natsVars, cacheVars,
                   eventVars, tgQueue>>
    /\ LaterFrame("target")

\* flow.rs:142-162: one turn of the for loop over the events.
TargetLoopEvent ==
    /\ component = "target"
    /\ tgPc = "events"
    /\ LET m == tgQueue[tgNext]
           ce == EventsToPublish(m)[tgEvent]
           last == tgEvent = Len(EventsToPublish(m))
       IN  \E o \in PublishOutcomes :
              /\ ce = <<>> => o = "published"
              /\ tgPc' = CASE ce # <<>> /\ o = "refused" -> "returned"
                           [] ce # <<>> /\ o = "unconvertible" -> "panicked"
                           [] OTHER -> IF last THEN "recv" ELSE "events"
              /\ tgOut' = IF ce # <<>> /\ o = "published"
                          THEN Append(tgOut, <<tgNext, SalesforceSubject(m, ce)>>)
                          ELSE tgOut
              /\ IF ce = <<>> \/ o = "published"
                 THEN /\ tgEvent' = IF last THEN 0 ELSE tgEvent + 1
                      /\ tgNext' = IF last THEN tgNext + 1 ELSE tgNext
                 ELSE UNCHANGED <<tgEvent, tgNext>>
    /\ UNCHANGED <<component, flowVars, stageVars, natsVars, cacheVars,
                   eventVars, tgQueue>>
    /\ LaterFrame("target")

---------------------------------------------------------------------------
(* Client::connect of the Delta Lake client,                               *)
(* src/crates/deltalake/src/client.rs:94-151.                              *)
(* An Option is <<>> for None and <<v>> for Some(v).                       *)

\* The largest number of columns in create_options.columns.
MaxColumns == 2

\* config::Column (config.rs:76-83); data_type has the one variant Utf8.
ConfigColumns == [name : {"id"}, data_type : {"Utf8"}, nullable : BOOLEAN]

\* config::CreateOptions (config.rs:131-136).
CreateOptionsValues ==
    [create_if_not_exist : BOOLEAN,
     columns : {<<>>} \cup {<<cs>> : cs \in UNION {[1 .. n -> ConfigColumns] :
                                                    n \in 0 .. MaxColumns}}]

\* The Client ClientBuilder::build returns (client.rs:218-227): table is None.
\* pathIsUtf8: self.path.to_str() is Some.
Clients ==
    [pathIsUtf8 : BOOLEAN,
     create_options : {<<>>} \cup {<<o>> : o \in CreateOptionsValues},
     table : {"None"}]

\* client.rs:127-136: each config Column becomes a StructField of type String.
StructFields(config_columns) ==
    [i \in DOMAIN config_columns |->
        [name |-> config_columns[i].name, type |-> "String",
         nullable |-> config_columns[i].nullable]]

\* A faulty connect that creates whenever columns are given, without the
\* look at create_if_not_exist.
CreatesWithoutFlag(c) ==
    /\ c.create_options # <<>>
    /\ c.create_options[1].columns # <<>>

\* client.rs:119-123: create_options is Some, its create_if_not_exist is
\* true and its columns are Some.
CreationRequested(c) ==
    /\ c.create_options # <<>>
    /\ c.create_options[1].create_if_not_exist
    /\ c.create_options[1].columns # <<>>

\* A storage call's answer: the storage may refuse any call; open succeeds
\* only on a table, create only where there is none.
CanOpen == lake # <<"absent">>
CanCreate == lake = <<"absent">>

\* client.rs:94-151, the whole of it.  opsOk, openOk, createOk: whether the
\* storage lets DeltaOps::try_from_uri_with_storage_options, the open and
\* the create through.
ClientConnect ==
    /\ component = "client"
    /\ clResult = "none"
    /\ \E opsOk \in BOOLEAN, openOk \in BOOLEAN, createOk \in BOOLEAN :
          IF ~client.pathIsUtf8
          THEN /\ clResult' = "MissingPath"
               /\ UNCHANGED <<client, lake, clCalls>>
          ELSE IF ~opsOk
          THEN /\ clResult' = "DeltaTable"
               /\ clCalls' = <<"ops">>
               /\ UNCHANGED <<client, lake>>
          ELSE IF openOk /\ CanOpen
          THEN /\ clResult' = "Ok"
               /\ client' = [client EXCEPT !.table = "opened"]
               /\ clCalls' = <<"ops", "open">>
               /\ UNCHANGED lake
          ELSE IF ~CreationRequested(client)
          THEN /\ clResult' = "Ok"
               /\ clCalls' = <<"ops", "open">>
               /\ UNCHANGED <<client, lake>>
          ELSE IF createOk /\ CanCreate
          THEN /\ clResult' = "Ok"
               /\ client' = [client EXCEPT !.table = "created"]
               /\ lake' = <<"table", StructFields(client.create_options[1].columns[1])>>
               /\ clCalls' = <<"ops", "open", "create">>
          ELSE /\ clResult' = "DeltaTable"
               /\ clCalls' = <<"ops", "open", "create">>
               /\ UNCHANGED <<client, lake>>
    /\ UNCHANGED <<component, flowVars, stageVars, natsVars, cacheVars, eventVars>>
    /\ LaterFrame("client")

---------------------------------------------------------------------------
(* The builders:                                                           *)
(*   deltalake_client      ClientBuilder, deltalake/src/client.rs:159-229  *)
(*   cache                 CacheBuilder, nats/src/cache.rs:77-115          *)
(*   file_publisher        PublisherBuilder, file/src/publisher.rs:64-104  *)
(*   salesforce_publisher  PublisherBuilder, salesforce/src/pubsub/        *)
(*                         publisher.rs:124-173                            *)
(* new() is Default: every Option is None and current_task_id is 0.        *)

BuilderKinds == {"deltalake_client", "cache", "file_publisher", "salesforce_publisher"}

\* The Option fields build() unwraps with ok_or_else(..)?, in the order of
\* the struct expression, each with the string the error names.
Unwrapped(kind) ==
    CASE kind = "deltalake_client" ->
            <<<<"credentials", "credentials">>, <<"path", "path">>>>
      [] kind = "cache" -> <<<<"credentials_path", "credentials">>>>
      [] kind = "file_publisher" ->
            <<<<"config", "config">>, <<"receiver", "receiver">>>>
      [] OTHER ->
            <<<<"service", "data">>, <<"config", "subject">>, <<"receiver", "subject">>>>

\* A faulty build that does not unwrap the last of the fields.
UnwrappedButLast(kind) == SubSeq(Unwrapped(kind), 1, Len(Unwrapped(kind)) - 1)

\* The fields build() checks.
Checked(kind) == Unwrapped(kind)

\* The Option fields build() passes on as they are.
PassedOn(kind) == IF kind = "deltalake_client" THEN {"create_options"} ELSE {}

\* The builders with a current_task_id field and setter.
HasTaskId(kind) == kind \in {"file_publisher", "salesforce_publisher"}

Setters(kind) == {Unwrapped(kind)[i][1] : i \in DOMAIN Unwrapped(kind)} \cup PassedOn(kind)

\* The field of the product that build() sets to None: Client.table
\* (client.rs:226), Cache.store (cache.rs:112).
NoneField(kind) ==
    CASE kind = "deltalake_client" -> "table"
      [] kind = "cache" -> "store"
      [] OTHER -> "-"

\* build(): the first field that is None ends it with
\* Err(MissingRequiredAttribute(name)) by `?`; else the product holds the
\* fields, current_task_id as the builder has it, and None in NoneField.
BuildResult(b) ==
    LET fields == Checked(b.kind)
        missing == {i \in DOMAIN fields : fields[i][1] \notin b.set}
    IN  IF missing # {}
        THEN [result |-> "MissingRequiredAttribute",
              attribute |-> fields[CHOOSE i \in missing : \A j \in missing : i <= j][2],
              product |-> <<>>]
        ELSE [result |-> "Ok", attribute |-> "-",
              product |-> <<[kind |-> b.kind, fields |-> b.set,
                             current_task_id |-> b.current_task_id,
                             none |-> NoneField(b.kind)]>>]

\* A setter of an Option field: self.x = Some(x).
SetAttribute(a) ==
    /\ component = "builder"
    /\ bldResult.result = "none"
    /\ a \in Setters(bld.kind) \ bld.set
    /\ bld' = [bld EXCEPT !.set = @ \cup {a}]
    /\ UNCHANGED <<component, flowVars, stageVars, natsVars, cacheVars,
                   eventVars, bldResult>>
    /\ LaterFrame("builder")

\* file publisher.rs:88-91, salesforce publisher.rs:154-157.
SetCurrentTaskId(n) ==
    /\ component = "builder"
    /\ bldResult.result = "none"
    /\ HasTaskId(bld.kind)
    /\ ~bld.taskIdSet
    /\ bld' = [bld EXCEPT !.current_task_id = n, !.taskIdSet = TRUE]
    /\ UNCHANGED <<component, flowVars, stageVars, natsVars, cacheVars,
                   eventVars, bldResult>>
    /\ LaterFrame("builder")

BuildFromAttributes ==
    /\ component = "builder"
    /\ bldResult.result = "none"
    /\ bldResult' = BuildResult(bld)
    /\ UNCHANGED <<component, flowVars, stageVars, natsVars, cacheVars,
                   eventVars, bld>>
    /\ LaterFrame("builder")

---------------------------------------------------------------------------
(* Initial states and specifications. *)

FlowRest ==
    /\ flowPc = "builder"
    /\ runResult = "none"
    /\ bus = <<>>
    /\ rx = [owner |-> "none", next |-> 1]
    /\ received = <<>>
    /\ rxLagged = 0
    /\ targetBuilt = FALSE
    /\ natsOut = <<>>
    /\ recordFailed = FALSE
    /\ topicPc = [t \in Topics |-> "unspawned"]
    /\ topicResult = [t \in Topics |-> "none"]
    /\ topicSent = [t \in Topics |-> 0]
    /\ sendFailed = {}
    /\ srcSent = 0
    /\ srcPc = "none"
    /\ sfJoinerPc = "none"
    /\ deltaPc = "none"
    /\ runJoinerPc = "none"
    /\ joined = {}
    /\ setupFailed = {}

\* A document that parses: what `doc` holds while another crate executes.
RestDoc ==
    [readable |-> TRUE,
     source |-> [kind |-> "file", fields |-> RequiredFields("source", "file")],
     target |-> [kind |-> "deltalake",
                 fields |-> RequiredFields("target", "deltalake")]]

StageRest ==
    /\ stage = [kind |-> "file", id |-> 1, checks |-> TRUE]
    /\ evSent = 0
    /\ evOpen = FALSE
    /\ sentAfterNew = 0
    /\ stRx = [owner |-> "none", next |-> 1]
    /\ stPc = "none"
    /\ stResult = "none"
    /\ loopPc = "none"
    /\ tasks = <<>>
    /\ stLagged = 0
    /\ fileContent = <<"absent">>

NatsRest ==
    /\ natsPc = "unbuilt"
    /\ natsResult = "none"
    /\ mpscLen = 0
    /\ mpscOpen = FALSE
    /\ natsSendFailed = FALSE

\* No Cache value yet, and a server without buckets.
CacheRest ==
    /\ cacheStore = "nocache"
    /\ cacheResult = CallResult("none", "-", "none", 0, FALSE, FALSE, TRUE)
    /\ kvHistory = [b \in Buckets |-> 0]
    /\ kvPuts = [b \in Buckets |-> [k \in Keys |-> 0]]
    /\ kvCreates = [b \in Buckets |-> 0]

RestBatch ==
    [schemaMeta |-> FALSE,
     columns |-> <<Column("c1", "Utf8", "none", FALSE, FALSE, "none",
                          [i \in 1 .. NumRows |-> <<0>>]),
                   Column("c2", "Utf8", "none", FALSE, FALSE, "none",
                          [i \in 1 .. NumRows |-> <<0>>])>>]

EventRest ==
    /\ eventIn = EventOf(RestBatch)
    /\ event = eventIn
    /\ evTrace = <<>>
    /\ evPc = "ready"

JsonRest ==
    /\ jsonIn = Json("null", "null", <<>>)
    /\ toBatch = [result |-> "none", columns |-> <<>>]

MessageRest ==
    /\ msgIn = Message(RestBatch)
    /\ msgBytes = [result |-> "none", bytes |-> <<>>]
    /\ msgBack = [result |-> "none", data |-> RestBatch]

PubsubRest ==
    /\ ctxHolder = "none"
    /\ ctxWaiters = <<>>
    /\ rpcPc = [t \in Topics |-> "get_topic"]
    /\ streamItems = [t \in Topics |-> 0]

\* The Event whose data is the batch b, sent on the bus: its arrays are at
\* the addresses 1 .. Len(b.columns).
FanoutOf(b) ==
    /\ pubEvent = EventOf(b)
    /\ arrays = b.columns
    /\ slot = EventAt(b.schemaMeta, [i \in DOMAIN b.columns |-> i], EventOf(b))
    /\ subs = [s \in Subscribers |-> [got |-> FALSE, passes |-> 0, event |-> slot]]

FanoutRest == FanoutOf(RestBatch)

TargetRest ==
    /\ tgQueue = <<>>
    /\ tgNext = 1
    /\ tgEvent = 0
    /\ tgOut = <<>>
    /\ tgPc = "recv"

ClientRest ==
    /\ client = [pathIsUtf8 |-> TRUE, create_options |-> <<>>, table |-> "None"]
    /\ lake = <<"absent">>
    /\ clResult = "none"
    /\ clCalls = <<>>

\* new(): `..Default::default()`.
NewBuilder(kind) ==
    /\ bld = [kind |-> kind, set |-> {}, current_task_id |-> 0, taskIdSet |-> FALSE]
    /\ bldResult = [result |-> "none", attribute |-> "-", product |-> <<>>]

BuilderRest == NewBuilder("cache")

LaterRest ==
    /\ JsonRest /\ MessageRest /\ PubsubRest /\ FanoutRest /\ TargetRest
    /\ ClientRest /\ BuilderRest

OtherRest == CacheRest /\ EventRest /\ LaterRest

InitFlow ==
    /\ component = "flow"
    /\ doc \in Docs
    /\ FlowRest
    /\ StageRest
    /\ NatsRest
    /\ OtherRest

InitNats ==
    /\ component = "nats"
    /\ doc = RestDoc
    /\ FlowRest
    /\ StageRest
    /\ NatsRest
    /\ OtherRest

InitCache ==
    /\ component = "cache"
    /\ doc = RestDoc
    /\ FlowRest
    /\ StageRest
    /\ NatsRest
    /\ OtherRest

InitEvent ==
    /\ component = "event"
    /\ doc = RestDoc
    /\ FlowRest
    /\ StageRest
    /\ NatsRest
    /\ CacheRest
    /\ eventIn \in {EventOf(b) : b \in Batches}
    /\ event = eventIn
    /\ evTrace = <<>>
    /\ evPc = "ready"
    /\ LaterRest

InitJson ==
    /\ component = "json"
    /\ doc = RestDoc
    /\ FlowRest
    /\ StageRest
    /\ NatsRest
    /\ CacheRest
    /\ EventRest
    /\ jsonIn \in JsonValues
    /\ toBatch = [result |-> "none", columns |-> <<>>]
    /\ MessageRest
    /\ PubsubRest
    /\ FanoutRest
    /\ TargetRest
    /\ ClientRest
    /\ BuilderRest

InitMessage ==
    /\ component = "message"
    /\ doc = RestDoc
    /\ FlowRest
    /\ StageRest
    /\ NatsRest
    /\ CacheRest
    /\ EventRest
    /\ JsonRest
    /\ msgIn \in {Message(t) : t \in MessageTables}
    /\ msgBytes = [result |-> "none", bytes |-> <<>>]
    /\ msgBack = [result |-> "none", data |-> RestBatch]
    /\ PubsubRest
    /\ FanoutRest
    /\ TargetRest
    /\ ClientRest
    /\ BuilderRest

\* subscriber.rs:99-104: build() has spawned one task per topic.
InitPubsub ==
    /\ component = "pubsub"
    /\ doc = RestDoc
    /\ FlowRest
    /\ StageRest
    /\ NatsRest
    /\ CacheRest
    /\ EventRest
    /\ JsonRest
    /\ MessageRest
    /\ ctxHolder = "none"
    /\ ctxWaiters = <<>>
    /\ rpcPc = [t \in Topics |-> "get_topic"]
    /\ streamItems = [t \in Topics |-> 0]
    /\ FanoutRest
    /\ TargetRest
    /\ ClientRest
    /\ BuilderRest

InitFanout ==
    /\ component = "fanout"
    /\ doc = RestDoc
    /\ FlowRest
    /\ StageRest
    /\ NatsRest
    /\ CacheRest
    /\ EventRest
    /\ JsonRest
    /\ MessageRest
    /\ PubsubRest
    /\ \E b \in MessageTables : FanoutOf(b)
    /\ TargetRest
    /\ ClientRest
    /\ BuilderRest

\* flow.rs:121-127: the publisher is built and the loop is about to receive.
InitTarget ==
    /\ component = "target"
    /\ doc = RestDoc
    /\ FlowRest
    /\ StageRest
    /\ NatsRest
    /\ CacheRest
    /\ EventRest
    /\ JsonRest
    /\ MessageRest
    /\ PubsubRest
    /\ FanoutRest
    /\ tgQueue \in [1 .. QueueLen -> ChannelMessages]
    /\ tgNext = 1
    /\ tgEvent = 0
    /\ tgOut = <<>>
    /\ tgPc = "recv"
    /\ ClientRest
    /\ BuilderRest

\* The Client as ClientBuilder::build returned it, and the storage with or
\* without a table at the path.
InitClient ==
    /\ component = "client"
    /\ doc = RestDoc
    /\ FlowRest
    /\ StageRest
    /\ NatsRest
    /\ CacheRest
    /\ EventRest
    /\ JsonRest
    /\ MessageRest
    /\ PubsubRest
    /\ FanoutRest
    /\ TargetRest
    /\ client \in Clients
    /\ lake \in {<<"absent">>, <<"table", <<>>>>}
    /\ clResult = "none"
    /\ clCalls = <<>>
    /\ BuilderRest

InitBuilder ==
    /\ component = "builder"
    /\ doc = RestDoc
    /\ FlowRest
    /\ StageRest
    /\ NatsRest
    /\ CacheRest
    /\ EventRest
    /\ JsonRest
    /\ MessageRest
    /\ PubsubRest
    /\ FanoutRest
    /\ TargetRest
    /\ ClientRest
    /\ \E kind \in BuilderKinds : NewBuilder(kind)

\* The file and Salesforce publishers are built with a Receiver the caller
\* made (PublisherBuilder::receiver); the HTTP processor makes its own.
InitStage ==
    /\ component = "stage"
    /\ doc = RestDoc
    /\ FlowRest
    /\ stage \in [kind : StageKinds, id : 0 .. MaxStage, checks : BOOLEAN]
    /\ evSent = 0
    /\ evOpen = TRUE
    /\ sentAfterNew = 0
    /\ stRx = IF stage.kind = "http" THEN [owner |-> "none", next |-> 1]
              ELSE [owner |-> "publisher", next |-> 1]
    /\ stPc = IF stage.kind = "http" THEN "unbuilt" ELSE "publishing"
    /\ stResult = "none"
    /\ loopPc = "none"
    /\ tasks = <<>>
    /\ stLagged = 0
    /\ fileContent = <<"absent">>
    /\ NatsRest
    /\ OtherRest

NextFlow ==
    \/ BuilderBuild
    \/ RunService
    \/ SourceBuild
    \/ FileSubscribeSend
    \/ SourceSubscribe
    \/ TargetBuild
    \/ TargetRecv
    \/ RunReturn
    \/ \E t \in Topics : TopicGetTopic(t) \/ TopicSubscribe(t) \/ TopicNext(t)
    \/ SfJoiner
    \/ NatsSourceTask
    \/ DeltaRecv
    \/ RunJoiner

NextStage ==
    \/ StageSend
    \/ StageUpstreamEnds
    \/ FilePublishRecv
    \/ \E i \in 1 .. MaxEvents : FileTaskCreate(i) \/ FileTaskWrite(i)
    \/ FilePublishJoin
    \/ SfPublishStart
    \/ LoopRecv
    \/ HttpNew
    \/ HttpBuild
    \/ HttpProcess

NextNats ==
    \/ NatsBuild
    \/ NatsTaskSubscribe
    \/ NatsTaskNext
    \/ NatsTaskSendResumes
    \/ MpscRecv
    \/ MpscClose

NextCache ==
    \/ CacheBuilderBuild
    \/ \E b \in Buckets : CacheInit(b)
    \/ \E k \in Keys : CachePut(k) \/ CacheGet(k)

SpecFlow == InitFlow /\ [][NextFlow]_vars

SpecStage == InitStage /\ [][NextStage]_vars

SpecNats == InitNats /\ [][NextNats]_vars

SpecCache == InitCache /\ [][NextCache]_vars

NextEvent == AdjustDataPrecision

SpecEvent == InitEvent /\ [][NextEvent]_vars

NextJson == ToRecordbatch

SpecJson == InitJson /\ [][NextJson]_vars

NextMessage == MessageTryFrom \/ ReadBack

SpecMessage == InitMessage /\ [][NextMessage]_vars

NextPubsub ==
    \E t \in Topics :
        \/ CtxLock(t)
        \/ CtxAcquire(t)
        \/ CtxRpcReturns(t)
        \/ CtxStreamNext(t)

SpecPubsub == InitPubsub /\ [][NextPubsub]_vars

\* The mutex hands the lock to the oldest pending lock() once it is free,
\* and the server answers every RPC, with a response or an error.
SpecPubsubLive ==
    /\ SpecPubsub
    /\ \A t \in Topics :
          /\ WF_vars(CtxAcquire(t))
          /\ WF_vars(CtxRpcReturns(t))

NextFanout == \E s \in Subscribers : FanoutRecv(s) \/ FanoutAdjust(s)

SpecFanout == InitFanout /\ [][NextFanout]_vars

NextTarget == TargetLoopRecv \/ TargetLoopEvent

SpecTarget == InitTarget /\ [][NextTarget]_vars

NextClient == ClientConnect

SpecClient == InitClient /\ [][NextClient]_vars

NextBuilder ==
    \/ \E a \in {"credentials", "path", "create_options", "credentials_path",
                 "config", "receiver", "service"} : SetAttribute(a)
    \/ \E n \in 0 .. MaxStage : SetCurrentTaskId(n)
    \/ BuildFromAttributes

SpecBuilder == InitBuilder /\ [][NextBuilder]_vars

Init ==
    \/ InitFlow \/ InitStage \/ InitNats \/ InitCache \/ InitEvent
    \/ InitJson \/ InitMessage \/ InitPubsub \/ InitFanout \/ InitTarget
    \/ InitClient \/ InitBuilder

Next ==
    \/ NextFlow \/ NextStage \/ NextNats \/ NextCache \/ NextEvent
    \/ NextJson \/ NextMessage \/ NextPubsub \/ NextFanout \/ NextTarget
    \/ NextClient \/ NextBuilder

Spec == Init /\ [][Next]_vars

---------------------------------------------------------------------------
(* Properties. *)

\* C1: a consuming stage with id n >= 1 (file Publisher, Salesforce PubSub
\* Publisher, HTTP Processor) goes on to its side effect for an Event it
\* received if and only if the Event's stamp is n-1; an Event with any other
\* stamp, or none, is dropped without a side effect, and no Event is handled
\* twice (none is buffered or requeued).
C1_ActsOnlyOnPredecessorStamp ==
    (component = "stage" /\ stage.id >= 1) =>
        /\ \A i \in DOMAIN tasks :
              /\ tasks[i].pc = "done" =>
                    (tasks[i].out = "skipped" <=> tasks[i].stamp # stage.id - 1)
              /\ tasks[i].pc = "created" => tasks[i].stamp = stage.id - 1
        /\ fileContent # <<"absent">> =>
              \E i \in DOMAIN tasks :
                  /\ tasks[i].stamp = stage.id - 1
                  /\ tasks[i].pc \in {"created", "done"}
                  /\ tasks[i].out # "skipped"
        /\ \A i, j \in DOMAIN tasks : i # j => tasks[i].ev # tasks[j].ev

\* A stage with id n >= 1 has acted on an Event stamped n-1 and has dropped
\* one stamped n.
C1_Witness ==
    /\ component = "stage"
    /\ stage.id >= 1
    /\ \E i, j \in DOMAIN tasks :
          /\ tasks[i].out \in {"written", "published", "rendered"}
          /\ tasks[i].stamp = stage.id - 1
          /\ tasks[j].out = "skipped"
          /\ tasks[j].stamp = stage.id

\* C2: a consumer whose recv() observed a lag indicator resumes receiving:
\* its receive loop is still running after the lag indicator.
C2_LoopRunsAfterLag ==
    /\ (component = "flow" /\ rxLagged > 0) =>
          (flowPc = "target_loop" \/ deltaPc = "recv")
    /\ (component = "stage" /\ stLagged > 0) =>
          (IF stage.kind = "file" THEN stPc = "publishing" ELSE loopPc = "running")

\* C3: Flow::run does not return Ok when a task spawned for the flow has
\* already ended with a fatal error.
C3_RunSucceedsOnlyIfNoTaskFailed ==
    [][(runResult # "Ok" /\ runResult' = "Ok") =>
          \A t \in Topics : topicResult[t] \in {"none", "Ok"}]_vars

\* C4: when the flow is in its terminal state, the termination of every
\* task spawned during Flow::run has been observed (its handle was joined).
C4_TasksJoinedBeforeTerminal ==
    (component = "flow" /\ flowPc \in {"returned", "panicked"}) =>
        /\ \A t \in Topics : topicPc[t] # "unspawned" => t \in joined
        /\ deltaPc # "none" => "delta" \in joined

\* C5: a record that cannot be converted, rendered, or that lacks an input
\* column is dropped and the receive loop that met it keeps running.
C5_RecordFailureKeepsLoopRunning ==
    /\ (component = "flow" /\ recordFailed) => flowPc # "panicked"
    /\ component = "stage" =>
          \A i \in DOMAIN tasks :
              tasks[i].out \in {"panic_render", "panic_input"} => loopPc # "panicked"

\* C6: a task whose send to the bus or publish to the broker failed has
\* ended with an error: the Salesforce topic task, the NATS target loop of
\* Flow::run, and the NATS subscribe task.
C6_FailedSendEndsTask ==
    /\ \A t \in sendFailed \cap Topics :
          topicPc[t] = "done" /\ topicResult[t] = "TokioSendMessage"
    /\ "target" \in sendFailed => (flowPc = "returned" /\ runResult = "NatsPublish")
    /\ natsSendFailed => (natsPc = "done" /\ natsResult \notin {"none", "Ok"})

\* C7: when the build or the subscribe of the source failed, Flow::run has
\* returned that error, no target was built and nothing was received from
\* the bus; when the build of the target failed, Flow::run has returned
\* that error.
C7_SetupFailureIsReturned ==
    /\ "source" \in setupFailed =>
          /\ flowPc = "returned"
          /\ runResult = SourceErrorOf(doc.source.kind)
          /\ ~targetBuilt
          /\ deltaPc = "none"
          /\ received = <<>>
          /\ rx.owner = "dropped"
    /\ "target" \in setupFailed =>
          /\ flowPc = "returned"
          /\ runResult = "FlowgenNatsJetStreamPublisher"
          /\ ~targetBuilt

\* The source's subscribe() failed after messages were sent on the bus.
C7_Witness ==
    /\ "source" \in setupFailed
    /\ flowPc = "returned"
    /\ Len(bus) > 0

\* C8: with a config file that cannot be read or does not parse, the
\* Builder returns an error and no Flow comes to exist: no channel, no
\* adapter and no task.
C8_NoFlowFromBadConfig ==
    (component = "flow" /\ (~doc.readable \/ ~ParseConfig(doc))) =>
        /\ flowPc \in {"builder", "no_flow"}
        /\ flowPc = "no_flow" =>
              runResult = (IF ~doc.readable THEN "OpenFile" ELSE "ParseConfig")
        /\ rx.owner = "none"
        /\ bus = <<>>
        /\ ~targetBuilt
        /\ \A t \in Topics : topicPc[t] = "unspawned"
        /\ srcPc = "none" /\ deltaPc = "none"
        /\ sfJoinerPc = "none" /\ runJoinerPc = "none"

\* Builder::build has refused a readable document whose NATS source lacks
\* the required field `stream`.
C8_Witness ==
    /\ component = "flow"
    /\ flowPc = "no_flow"
    /\ runResult = "ParseConfig"
    /\ doc.readable
    /\ doc.source.kind = "nats_jetstream"
    /\ "stream" \notin doc.source.fields

\* C9: a task that sends is never suspended inside the send, whatever the
\* number of unread messages.
C9_SendNeverSuspends == natsPc # "send_wait"

\* C10: a live Receiver that has not lagged has received every message sent
\* since it was created, in order and without a gap: the Receiver made with
\* the channel in Flow::run, and the Receiver of a stage (for the HTTP
\* processor, the one Builder::new subscribed).
C10_LiveReceiverMissesNothing ==
    /\ (component = "flow" /\ rx.owner \in {"run", "delta"} /\ rxLagged = 0) =>
          received = SubSeq(bus, 1, rx.next - 1)
    /\ (component = "stage" /\ stRx.owner \in {"publisher", "builder", "loop"}
            /\ stLagged = 0) =>
          /\ Len(tasks) + (evSent + 1 - stRx.next) = sentAfterNew
          /\ \A i \in DOMAIN tasks : tasks[i].ev = evSent - sentAfterNew + i

\* The target loop has received a message the file source sent while
\* Flow::run was still awaiting subscribe().
C10_Witness ==
    /\ flowPc = "target_loop"
    /\ rx.owner = "run"
    /\ rxLagged = 0
    /\ Len(received) >= 1
    /\ received[1].variant = "file"
    /\ received[1] = bus[1]

\* C11: the Salesforce Subscriber::subscribe never blocks its caller: while
\* Flow::run awaits it, its return is possible whatever the per-topic tasks
\* have done so far, and once it has returned the join of the tasks is left
\* to a spawned task.
C11_SubscribeNeverBlocks ==
    (component = "flow" /\ doc.source.kind = "salesforce_pubsub") =>
        /\ flowPc = "subscribe" => ENABLED SourceSubscribe
        /\ flowPc \in {"target", "target_loop", "spawn_joiner"} =>
              sfJoinerPc \in {"joining", "done"}

\* subscribe() has returned while no per-topic task has taken a step: none
\* has received or sent a message and none has finished.
C11_Witness ==
    /\ component = "flow"
    /\ doc.source.kind = "salesforce_pubsub"
    /\ flowPc = "target"
    /\ \A t \in Topics : topicPc[t] = "get_topic" /\ topicSent[t] = 0
    /\ bus = <<>>

\* C12: publish() of the file Publisher and of the Salesforce Publisher has
\* returned Ok only when the upstream channel is closed and every Event sent
\* on the bus has been received.
C12_PublishOkOnlyWhenDrained ==
    (component = "stage" /\ stage.kind \in {"file", "salesforce"}
        /\ stPc = "returned" /\ stResult = "Ok") =>
        /\ ~evOpen
        /\ stRx.next > evSent
        /\ Len(tasks) = evSent

\* C13: once every producer has finished and the target has handled every
\* message sent, the recv() of the target loop in Flow::run completes (with
\* the channel closed), so that the loop ends and Flow::run can return.
C13_TargetLoopEndsWhenProducersGone ==
    (component = "flow" /\ flowPc = "target_loop"
        /\ (\A t \in Topics : topicPc[t] \in {"unspawned", "done"})
        /\ srcPc # "running"
        /\ Len(bus) >= 1
        /\ rx.next > Len(bus)) =>
        ENABLED TargetRecv

\* The stages of the lifecycle of Flow::run, in their order.
LifecycleRank(pc) ==
    CASE pc = "builder" -> 0
      [] pc = "built" -> 1
      [] pc = "source" -> 2
      [] pc = "subscribe" -> 3
      [] pc = "target" -> 4
      [] pc = "target_loop" -> 5
      [] pc = "spawn_joiner" -> 6
      [] OTHER -> 7

C15_FileToNatsEndToEnd ==
    (component = "flow" /\ doc.source.kind = "file"
        /\ doc.target.kind = "nats_jetstream") =>
        /\ (flowPc = "returned" /\ runResult = "Ok") => Len(natsOut) = srcSent
        /\ (flowPc = "target_loop" /\ srcSent >= 1 /\ Len(natsOut) = srcSent) =>
              ENABLED TargetRecv

\* C16: Cache::init is idempotent on the bucket: an init the server
\* answered returns Ok with the store bound to the named bucket, whether the
\* bucket was created by this call or fetched, and the server has created a
\* bucket of a given name at most once.
C16_InitIdempotent ==
    component = "cache" =>
        /\ \A b \in Buckets :
              kvCreates[b] <= 1 /\ (kvHistory[b] > 0 <=> kvCreates[b] = 1)
        /\ (cacheResult.op = "init" /\ cacheResult.envOk) =>
              /\ cacheResult.result = "Ok"
              /\ cacheStore = cacheResult.arg
              /\ kvHistory[cacheResult.arg] > 0

\* A second init of a bucket has fetched it, with the revisions put after
\* the first init still there.
C16_Witness ==
    /\ component = "cache"
    /\ cacheResult.op = "init"
    /\ cacheResult.result = "Ok"
    /\ cacheResult.found
    /\ kvCreates[cacheResult.arg] = 1
    /\ kvPuts[cacheResult.arg]["k1"] > 0

\* C17: a get on an initialised cache, answered by the server, of a key
\* that was never set returns the error EmptyBuffer; and a get, whatever it
\* returns, leaves the cache and the server's buckets as they were.
C17_GetOfUnsetKeyIsEmptyBuffer ==
    [][(cacheResult'.op = "get" /\ cacheResult' # cacheResult) =>
          /\ UNCHANGED <<cacheStore, kvHistory, kvPuts, kvCreates>>
          /\ (cacheStore \in Buckets /\ cacheResult'.envOk
                 /\ kvPuts[cacheStore][cacheResult'.arg] = 0) =>
                (cacheResult'.result = "EmptyBuffer" /\ cacheResult'.value = 0)]_vars

\* A get of a key never set has returned EmptyBuffer on a bucket whose other
\* key holds a revision.
C17_Witness ==
    /\ component = "cache"
    /\ cacheStore \in Buckets
    /\ cacheResult.op = "get"
    /\ cacheResult.arg = "k2"
    /\ cacheResult.result = "EmptyBuffer"
    /\ kvPuts[cacheStore]["k2"] = 0
    /\ kvPuts[cacheStore]["k1"] > 0

\* C18: init calls create_key_value only when get_key_value did not return
\* the bucket; a bucket that exists has history depth 10; and no key of any
\* bucket retains more than 10 revisions.
C18_HistoryDepthTen ==
    component = "cache" =>
        /\ (cacheResult.op = "init" /\ cacheResult.created) => ~cacheResult.found
        /\ \A b \in Buckets : kvHistory[b] \in {0, 10}
        /\ \A b \in Buckets, k \in Keys : Retained(b, k) <= 10

\* A key has been put more than ten times, so that its bucket dropped the
\* oldest revision and retains ten.
C18_Witness ==
    /\ component = "cache"
    /\ \E b \in Buckets, k \in Keys : kvPuts[b][k] > 10 /\ Retained(b, k) = 10

\* The thousandfold of every millisecond value of the Event handed over
\* fits an i64.
MillisInRange ==
    \A i \in DOMAIN eventIn.data.columns :
        eventIn.data.columns[i].type = "Timestamp_Millisecond" =>
            ~Overflows(eventIn.data.columns[i])

\* C19: adjust_data_precision is idempotent on an Event whose values are in
\* range: after the first call no millisecond timestamp column remains, and
\* a second call leaves the schema and the cell values as the first call
\* left them.
C19_AdjustIsIdempotent ==
    (component = "event" /\ MillisInRange) =>
        /\ Len(evTrace) >= 1 =>
              \A i \in DOMAIN evTrace[1].data.columns :
                  evTrace[1].data.columns[i].type # "Timestamp_Millisecond"
        /\ Len(evTrace) >= 2 => evTrace[2].data = evTrace[1].data

\* C20: on an Event whose values are in range,
\* a call of adjust_data_precision turns each millisecond timestamp
\* column into a microsecond one with the same name, nullability, timezone
\* and position, every value v becoming v*1000 and every null staying null;
\* every other column, the number of columns and of rows, and the Event's
\* subject, extensions and current_task_id are as before.
C20_AdjustChangesOnlyMillisColumns ==
    (component = "event" /\ MillisInRange /\ Len(evTrace) >= 1) =>
        LET before == eventIn.data.columns
            after == evTrace[1].data.columns
        IN  /\ Len(after) = Len(before)
            /\ \A i \in DOMAIN before :
                  IF before[i].type = "Timestamp_Millisecond"
                  THEN /\ after[i].type = "Timestamp_Microsecond"
                       /\ after[i].name = before[i].name
                       /\ after[i].nullable = before[i].nullable
                       /\ after[i].tz = before[i].tz
                       /\ DOMAIN after[i].values = DOMAIN before[i].values
                       /\ \A r \in DOMAIN before[i].values :
                             after[i].values[r] =
                                 IF before[i].values[r] = <<>> THEN <<>>
                                 ELSE <<before[i].values[r][1] * 1000>>
                  ELSE after[i] = before[i]
            /\ event.subject = eventIn.subject
            /\ event.extensions = eventIn.extensions
            /\ event.current_task_id = eventIn.current_task_id

\* C21: to_recordbatch returns a one-row table with one string column per
\* top-level key when the input is a JSON object, returns the error value
\* SchemaError when it is not, and never aborts the calling task.
C21_ToRecordbatchNeverAborts ==
    (component = "json" /\ toBatch.result # "none") =>
        /\ toBatch.result # "panic"
        /\ jsonIn.kind = "object" =>
              /\ toBatch.result = "Ok"
              /\ Len(toBatch.columns) = Len(jsonIn.members)
              /\ \A i \in DOMAIN toBatch.columns :
                    /\ toBatch.columns[i].name = jsonIn.members[i][1]
                    /\ toBatch.columns[i].type = "Utf8"
                    /\ Len(toBatch.columns[i].values) = 1
        /\ jsonIn.kind # "object" => toBatch.result = "SchemaError"

C23_EveryMessageIsStamped ==
    (component = "flow" /\ doc.source.kind = "salesforce_pubsub") =>
        \A i \in DOMAIN bus :
            /\ CurrentTaskIdOf(bus[i]) # NoStamp
            /\ CurrentTaskIdOf(bus[i]) = 0

\* The tasks that execute an RPC on the shared context.
InRpc == {t \in Topics : rpcPc[t] \in {"rpc_get_topic", "rpc_subscribe"}}

\* C24: the shared PubSub context is accessed only under its mutex and only
\* for one RPC call: at most one topic task executes an RPC at any time and
\* it is the holder of the lock; the lock is held only by a task that is
\* executing an RPC (not while it waits for a stream item, not between two
\* RPC calls); and every topic task whose lock() is pending eventually gets
\* the lock.
C24_ContextLockedPerRpc ==
    /\ [](component = "pubsub" =>
            /\ Cardinality(InRpc) <= 1
            /\ \A t \in InRpc : ctxHolder = t
            /\ ctxHolder # "none" => ctxHolder \in InRpc)
    /\ \A t \in Topics :
          (component = "pubsub" /\ rpcPc[t] \in {"lock_get_topic", "lock_subscribe"})
              ~> (ctxHolder = t)

\* One topic task waits for its next stream item after it has taken one,
\* while the other executes its subscribe RPC under the lock.
C24_Witness ==
    /\ component = "pubsub"
    /\ rpcPc["t1"] = "stream" /\ streamItems["t1"] >= 1
    /\ rpcPc["t2"] = "rpc_subscribe" /\ ctxHolder = "t2"

\* The messages of topic task t in the sequence `log`, in the order of the log.
FromTask(log, t) == SelectSeq(log, LAMBDA m : m.from = t)

\* C25: for a single Salesforce topic task the messages are on the bus in
\* the order the fetch responses arrived on its stream (the k-th message of
\* the task on the bus is its k-th fetch response), and a subscriber that
\* has not lagged has received the messages of the task in that same order;
\* the messages of different tasks interleave arbitrarily.
C25_ProgramOrderPerTask ==
    (component = "flow" /\ doc.source.kind = "salesforce_pubsub") =>
        \A t \in Topics :
            LET sent == FromTask(bus, t)
                got == FromTask(received, t)
            IN  /\ Len(sent) = topicSent[t]
                /\ \A k \in DOMAIN sent : sent[k].seq = k
                /\ rxLagged = 0 =>
                      /\ Len(got) <= Len(sent)
                      /\ \A k \in DOMAIN got : got[k] = sent[k]

\* The target has received, without a lag, two messages of one topic task
\* with a message of the other task between them.
C25_Witness ==
    /\ component = "flow"
    /\ rxLagged = 0
    /\ Len(received) >= 3
    /\ received[1].from = "t1" /\ received[1].seq = 1
    /\ received[2].from = "t2"
    /\ received[3].from = "t1" /\ received[3].seq = 2

\* C26: a change a subscriber makes to the Event it received
\* (adjust_data_precision replacing its data) is not visible to any other
\* subscriber: the Event in the channel, and the Event of every subscriber
\* that has not itself changed it, read exactly as the Event was published.
C26_PublishedEventIsImmutable ==
    component = "fanout" =>
        /\ Deref(arrays, slot) = pubEvent
        /\ \A s \in Subscribers :
              (subs[s].got /\ subs[s].passes = 0) =>
                  Deref(arrays, subs[s].event) = pubEvent

\* Subscriber "delta" has converted the Event it received, which now reads
\* differently from the published one, while "other" holds its own.
C26_Witness ==
    /\ component = "fanout"
    /\ subs["other"].got /\ subs["other"].passes = 0
    /\ subs["delta"].got /\ subs["delta"].passes = 1
    /\ Deref(arrays, subs["delta"].event).data.columns # pubEvent.data.columns

\* The publishes the broker accepted for the k-th message, in order.
PublishedFor(k) ==
    LET mine == SelectSeq(tgOut, LAMBDA p : p[1] = k)
    IN  [i \in DOMAIN mine |-> mine[i][2]]

\* The events of a fetch response that carry a producer event, in order.
WithProducerEvent(m) == SelectSeq(m.events, LAMBDA ce : ce # <<>>)

\* <event_name> of the topics: the topic name without its leading slash,
\* dots for slashes, in lower case.
ExpectedEventName(topic_name) ==
    IF topic_name = <<"/", "e", "/", "A">> THEN <<"e", ".", "a">>
    ELSE <<"d", ".", "b">>

\* C27: for every message the NATS target loop has finished with, a file
\* message was published once, on filedrop.in.<file_chunk>; a Salesforce
\* message with j events that carry a producer event was published as
\* exactly j messages, on salesforce.pubsub.in.<event_name>.<id> in the
\* order of the events; a message of any other variant was not published,
\* and the loop went on after it.
C27_OnePublishPerPayload ==
    component = "target" =>
        /\ \A k \in 1 .. (tgNext - 1) :
              LET m == tgQueue[k] IN
              CASE m.variant = "file" ->
                      PublishedFor(k) = <<<<"filedrop.in", m.file_chunk>>>>
                [] m.variant = "salesforce_pubsub" ->
                      /\ Len(PublishedFor(k)) = Len(WithProducerEvent(m))
                      /\ \A i \in DOMAIN PublishedFor(k) :
                            PublishedFor(k)[i] =
                                <<"salesforce.pubsub.in",
                                  ExpectedEventName(m.topic_name),
                                  WithProducerEvent(m)[i][1]>>
                [] OTHER -> PublishedFor(k) = <<>>
        /\ (tgNext <= Len(tgQueue) /\ tgQueue[tgNext].variant = "nats_jetstream") =>
              /\ tgPc = "recv"
              /\ ENABLED TargetLoopRecv

\* The loop has finished with a Salesforce message of two events of which
\* one carries a producer event, after a message of another variant.
C27_Witness ==
    /\ component = "target"
    /\ tgNext = 3
    /\ tgQueue[1].variant = "nats_jetstream"
    /\ tgQueue[2].variant = "salesforce_pubsub"
    /\ tgQueue[2].events = <<<<>>, <<"id1">>>>
    /\ Len(tgOut) = 1

\* connect tried to open the table / tried to create it.
OpenAttempted == \E i \in DOMAIN clCalls : clCalls[i] = "open"
CreateAttempted == \E i \in DOMAIN clCalls : clCalls[i] = "create"

\* C28: once connect has returned: if the open succeeded the table is stored
\* and the result is Ok; if the open failed, a creation was attempted if and
\* only if create_options is present, create_if_not_exist is true and
\* columns are given; if the open failed and one of these does not hold, no
\* creation was attempted and the result is Ok with table None; a creation
\* that failed gives an error, one that succeeded stores the table.
C28_ConnectOpensOrCreates ==
    (component = "client" /\ clResult # "none") =>
        LET opened == client.table = "opened"
            openFailed == OpenAttempted /\ ~opened
            wanted == /\ client.create_options # <<>>
                      /\ client.create_options[1].create_if_not_exist
                      /\ client.create_options[1].columns # <<>>
        IN  /\ opened => (clResult = "Ok" /\ ~CreateAttempted)
            /\ openFailed => (CreateAttempted <=> wanted)
            /\ (openFailed /\ ~wanted) =>
                  (clResult = "Ok" /\ client.table = "None" /\ ~CreateAttempted)
            /\ (CreateAttempted /\ client.table # "created") =>
                  (clResult = "DeltaTable" /\ client.table = "None")
            /\ client.table = "created" => (clResult = "Ok" /\ CreateAttempted)
            /\ ~OpenAttempted => clResult \in {"MissingPath", "DeltaTable"}

\* The open failed, columns are given but create_if_not_exist is false:
\* connect returned Ok and there is no table.
C28_Witness ==
    /\ component = "client"
    /\ clResult = "Ok"
    /\ client.table = "None"
    /\ OpenAttempted
    /\ client.create_options # <<>>
    /\ ~client.create_options[1].create_if_not_exist
    /\ client.create_options[1].columns # <<>>

\* The attributes each builder requires.
RequiredOf(kind) ==
    CASE kind = "deltalake_client" -> {"credentials", "path"}
      [] kind = "cache" -> {"credentials_path"}
      [] kind = "file_publisher" -> {"config", "receiver"}
      [] OTHER -> {"service", "config", "receiver"}

RpcFailed(t) == topicPc[t] = "done" /\ topicResult[t] = "FlowgenSalesforcePubSub"

\* C30: the failure of one Salesforce topic task (topic lookup, subscribe,
\* or an RPC error on the stream) ends only that task: the step in which it
\* fails changes the position and result of no other topic task, and a task
\* that reads its stream beside a failed one can still send its next
\* message to the bus.
C30_TopicFailureIsIsolated ==
    /\ [][\A t \in Topics :
            (component = "flow" /\ ~RpcFailed(t) /\ RpcFailed(t)') =>
                \A u \in Topics \ {t} :
                    /\ topicPc'[u] = topicPc[u]
                    /\ topicResult'[u] = topicResult[u]
                    /\ topicSent'[u] = topicSent[u]]_vars
    /\ [](\A t \in Topics, u \in Topics :
            (/\ component = "flow" /\ RpcFailed(t)
             /\ topicPc[u] = "stream" /\ ReceiverAlive /\ TotalSent < MaxSend) =>
                ENABLED (TopicNext(u) /\ topicSent'[u] = topicSent[u] + 1))

\* Task t1 failed before it sent anything, and t2 has sent two messages and
\* still reads its stream.
C30_Witness ==
    /\ component = "flow"
    /\ RpcFailed("t1") /\ topicSent["t1"] = 0
    /\ topicPc["t2"] = "stream" /\ topicSent["t2"] = 2

\* C31: for every stage id, the builder default 0 included, the predecessor
\* check `current_task_id - 1` neither underflows nor aborts the consuming
\* task: no task ends in the overflow panic, and a stage with id 0 accepts
\* no Event, whatever its stamp.
C31_PredecessorCheckNeverAborts ==
    component = "stage" =>
        \A i \in DOMAIN tasks :
            /\ tasks[i].out # "panic_overflow"
            /\ stage.id = 0 => (tasks[i].pc = "spawned" \/ tasks[i].out = "skipped")

\* The tasks of the file Publisher whose Event passed the stamp test.
AcceptedTasks == {i \in DOMAIN tasks : Accepts(stage.id, tasks[i].stamp)}

\* C32: the file Publisher applies accepted Events to the file in the order
\* it received them: no two tasks are between their File::create and their
\* write at the same time, and once publish has returned with every task
\* finished, the file holds the batch of the last accepted Event if that
\* Event was written.
C32_FileWritesInReceiveOrder ==
    (component = "stage" /\ stage.kind = "file" /\ stage.id > 0) =>
        /\ \A i, j \in DOMAIN tasks :
              (tasks[i].pc = "created" /\ tasks[j].pc = "created") => i = j
        /\ \A i \in AcceptedTasks :
              (/\ stPc = "returned"
               /\ \A j \in DOMAIN tasks : tasks[j].pc = "done"
               /\ \A j \in AcceptedTasks : j <= i
               /\ tasks[i].out = "written") =>
                  fileContent = <<"batch", tasks[i].ev>>

\* C33: file Publisher::publish returns only after every per-event task it
\* spawned has terminated, a failed or panicked task included, and its
\* result is Ok whatever a per-event task returned.
C33_PublishReturnsAfterAllTasks ==
    (component = "stage" /\ stage.kind = "file" /\ stPc = "returned") =>
        /\ \A i \in DOMAIN tasks : tasks[i].pc = "done"
        /\ stResult = "Ok"

\* C34: the Salesforce Publisher sends exactly one PublishRequest, holding
\* exactly one ProducerEvent with the schema id resolved at start-up, for
\* each Event it accepts, in the order the Events were received.
C34_OnePublishRequestPerAcceptedEvent ==
    (component = "stage" /\ stage.kind = "salesforce" /\ stage.id > 0) =>
        LET accepted == SelectSeq(tasks, LAMBDA t : Accepts(stage.id, t.stamp))
        IN  /\ Len(PublishRequests) = Len(accepted)
            /\ \A k \in 1 .. Len(accepted) :
                  /\ Len(PublishRequests[k].events) = 1
                  /\ PublishRequests[k].events[1] =
                        [schema_id |-> "schema_info.schema_id", payload |-> accepted[k].ev]

\* C35: on a Cache built but not initialised (store is None) put and get
\* return MissingCacheStore and leave the Cache and the server's buckets as
\* they were; on a Cache whose init succeeded neither returns
\* MissingCacheStore.
C35_MissingStoreOnlyBeforeInit ==
    [][(cacheResult'.op \in {"put", "get"} /\ cacheResult' # cacheResult) =>
          /\ cacheStore = "None" =>
                /\ cacheResult'.result = "MissingCacheStore"
                /\ UNCHANGED <<cacheStore, kvHistory, kvPuts, kvCreates>>
          /\ cacheStore \in Buckets =>
                cacheResult'.result # "MissingCacheStore"]_vars

\* A put on the Cache as built was refused with MissingCacheStore while the
\* bucket of an earlier Cache exists on the server with a revision in it,
\* which the refused put left alone.
C35_Witness ==
    /\ component = "cache"
    /\ cacheStore = "None"
    /\ cacheResult.op = "put"
    /\ cacheResult.result = "MissingCacheStore"
    /\ \E b \in Buckets : kvPuts[b]["k1"] = 1

\* C36: on an initialised Cache a put that succeeds makes a new latest
\* revision of its key and changes no other key of any bucket, and a get
\* that succeeds returns the latest revision put on its key.
C36_GetReturnsLatestPut ==
    [][/\ kvPuts' # kvPuts =>
             /\ cacheStore \in Buckets
             /\ cacheResult'.op = "put" /\ cacheResult'.result = "Ok"
             /\ \A b \in Buckets, k \in Keys :
                   kvPuts'[b][k] =
                       IF b = cacheStore /\ k = cacheResult'.arg
                       THEN kvPuts[b][k] + 1 ELSE kvPuts[b][k]
       /\ (cacheStore \in Buckets /\ cacheResult' # cacheResult
              /\ cacheResult'.op = "get" /\ cacheResult'.result = "Ok") =>
             /\ kvPuts[cacheStore][cacheResult'.arg] > 0
             /\ cacheResult'.value = kvPuts[cacheStore][cacheResult'.arg]]_vars

\* A get of k1 returned its second revision on a bucket whose key k2 was
\* put three times.
C36_Witness ==
    /\ component = "cache"
    /\ cacheStore \in Buckets
    /\ cacheResult.op = "get" /\ cacheResult.arg = "k1"
    /\ cacheResult.result = "Ok" /\ cacheResult.value = 2
    /\ kvPuts[cacheStore]["k1"] = 2
    /\ kvPuts[cacheStore]["k2"] = 3

\* C37: in adjust_data_precision the scaling of a millisecond value by 1000
\* never leaves the range of i64: no call aborts on the multiplication, and
\* after a call that returned Ok every value of a millisecond column of the
\* Event handed over is its mathematical thousandfold.
C37_ScalingNeverOverflows ==
    component = "event" =>
        /\ \A p \in DOMAIN evTrace : evTrace[p].result # "panic"
        /\ (Len(evTrace) >= 1 /\ evTrace[1].result = "Ok") =>
              \A i \in DOMAIN eventIn.data.columns :
                  eventIn.data.columns[i].type = "Timestamp_Millisecond" =>
                      \A r \in 1 .. NumRows :
                          eventIn.data.columns[i].values[r] # <<>> =>
                              evTrace[1].data.columns[i].values[r] =
                                  <<eventIn.data.columns[i].values[r][1] * 1000>>

===========================================================================
